---- MODULE Spec2Model ----
(***************************************************************************)
(* A model of the HILO front-end parser (parser/src/parser.rs).            *)
(*                                                                         *)
(* Text is modelled at the level the code works on: a string is a sequence *)
(* of UTF-8 bytes and every cursor is a 0-based byte offset, as in Rust.   *)
(* An ASCII character is one byte, written as a one-character string; the  *)
(* model's only multi-byte character is U+00E9 (e-acute), the two bytes    *)
(* "C3" "A9".  A character is named by its first byte.                     *)
(*                                                                         *)
(* The parser is a pure function, so its functions are operators; a loop   *)
(* is a RECURSIVE operator taking the loop's state.  Two outcomes of the   *)
(* Rust code are not values: a slice at an index that is out of range or   *)
(* inside a character panics (Panics), and a loop whose iteration neither  *)
(* exits nor moves its cursor repeats that iteration for ever (Diverges).  *)
(***************************************************************************)
EXTENDS Integers, Sequences, FiniteSets, TLC

\* ------------------------------------------------------------------------
\* Characters and strings (Rust's char and str)
\* ------------------------------------------------------------------------

\* A string literal as the sequence of its (ASCII) bytes.
Str(s) == [i \in 1..Len(s) |-> SubSeq(s, i, i)]

\* U+00E9 in UTF-8.
EAcute == <<"C3", "A9">>

\* Option<char>::None.
NoChar == ""

AsciiLetters ==
    {"a", "b", "c", "d", "e", "f", "g", "h", "i", "j", "k", "l", "m", "n", "o",
     "p", "q", "r", "s", "t", "u", "v", "w", "x", "y", "z",
     "A", "B", "C", "D", "E", "F", "G", "H", "I", "J", "K", "L", "M", "N", "O",
     "P", "Q", "R", "S", "T", "U", "V", "W", "X", "Y", "Z"}

AsciiDigits == {"0", "1", "2", "3", "4", "5", "6", "7", "8", "9"}

\* char::len_utf8
len_utf8(ch) == IF ch = "C3" THEN 2 ELSE 1

\* A UTF-8 continuation byte: not the first byte of a character.
is_continuation_byte(b) == b = "A9"

\* char::is_whitespace
is_whitespace(ch) == ch \in {" ", "\n", "\t", "\r"}

\* char::is_alphabetic
is_alphabetic(ch) == ch \in AsciiLetters \cup {"C3"}

\* char::is_alphanumeric
is_alphanumeric(ch) == is_alphabetic(ch) \/ ch \in AsciiDigits

\* str::is_char_boundary
is_char_boundary(src, idx) ==
    \/ idx = 0
    \/ idx = Len(src)
    \/ idx < Len(src) /\ ~is_continuation_byte(src[idx + 1])

\* src[a..b], defined when both ends are in range and on character
\* boundaries (the slice panics otherwise).
slice_ok(src, a, b) ==
    a <= b /\ b <= Len(src) /\ is_char_boundary(src, a) /\ is_char_boundary(src, b)

slice(src, a, b) == SubSeq(src, a + 1, b)

\* src[idx..].starts_with(pat)
starts_with_at(src, idx, pat) ==
    /\ idx + Len(pat) <= Len(src)
    /\ SubSeq(src, idx + 1, idx + Len(pat)) = pat

ends_with(src, pat) ==
    /\ Len(pat) <= Len(src)
    /\ SubSeq(src, Len(src) - Len(pat) + 1, Len(src)) = pat

\* The first offset at or after idx that holds no whitespace.
RECURSIVE trim_start_from(_, _)
trim_start_from(src, idx) ==
    IF idx < Len(src) /\ is_whitespace(src[idx + 1])
    THEN trim_start_from(src, idx + 1)
    ELSE idx

\* The least end such that src[end..upto] is all whitespace.
RECURSIVE trim_end_upto(_, _)
trim_end_upto(src, upto) ==
    IF upto > 0 /\ is_whitespace(src[upto])
    THEN trim_end_upto(src, upto - 1)
    ELSE upto

\* str::trim
str_trim(src) ==
    LET a == trim_start_from(src, 0)
        b == trim_end_upto(src, Len(src))
    IN  IF a >= b THEN <<>> ELSE SubSeq(src, a + 1, b)

\* str::trim_end_matches(ch)
RECURSIVE trim_end_matches(_, _)
trim_end_matches(src, ch) ==
    IF Len(src) > 0 /\ src[Len(src)] = ch
    THEN trim_end_matches(SubSeq(src, 1, Len(src) - 1), ch)
    ELSE src

\* str::find(ch) from offset idx: the offset of the first ch, or -1.
RECURSIVE find_from(_, _, _)
find_from(src, idx, ch) ==
    IF idx >= Len(src) THEN -1
    ELSE IF src[idx + 1] = ch THEN idx
    ELSE find_from(src, idx + 1, ch)

\* str::rfind(ch): the offset of the last ch before offset upto, or -1.
RECURSIVE rfind_upto(_, _, _)
rfind_upto(src, upto, ch) ==
    IF upto <= 0 THEN -1
    ELSE IF src[upto] = ch THEN upto - 1
    ELSE rfind_upto(src, upto - 1, ch)

\* str::split_once(ch): <<>> for None, <<before, after>> for Some.
split_once(src, ch) ==
    LET at == find_from(src, 0, ch)
    IN  IF at < 0 THEN <<>>
        ELSE <<SubSeq(src, 1, at), SubSeq(src, at + 2, Len(src))>>

\* str::split(ch): the pieces between the occurrences of ch.
RECURSIVE str_split(_, _)
str_split(src, ch) ==
    LET at == find_from(src, 0, ch)
    IN  IF at < 0 THEN <<src>>
        ELSE <<SubSeq(src, 1, at)>> \o str_split(SubSeq(src, at + 2, Len(src)), ch)

\* One line without its terminator ("\n" or "\r\n").
strip_cr(line) ==
    IF Len(line) > 0 /\ line[Len(line)] = "\r"
    THEN SubSeq(line, 1, Len(line) - 1)
    ELSE line

\* str::lines: split at "\n"; a final empty piece is no line.
RECURSIVE str_lines(_)
str_lines(src) ==
    IF src = <<>> THEN <<>>
    ELSE LET at == find_from(src, 0, "\n")
         IN  IF at < 0 THEN <<src>>
             ELSE <<strip_cr(SubSeq(src, 1, at))>>
                  \o str_lines(SubSeq(src, at + 2, Len(src)))

\* fn peek_char(src, idx) -> Option<char>
peek_char(src, idx) ==
    IF idx < Len(src) /\ is_char_boundary(src, idx) THEN src[idx + 1] ELSE NoChar

\* ------------------------------------------------------------------------
\* The syntax tree (ast.rs)
\* ------------------------------------------------------------------------

Simple(name) == [kind |-> "Simple", name |-> name]
Generic(base, arguments) ==
    [kind |-> "Generic", base |-> base, arguments |-> arguments]
List(elem) == [kind |-> "List", elem |-> elem]
Struct(fields) == [kind |-> "Struct", fields |-> fields]
Optional(inner) == [kind |-> "Optional", inner |-> inner]
Unknown(raw) == [kind |-> "Unknown", raw |-> raw]

StructFieldType(name, optional, ty) ==
    [name |-> name, optional |-> optional, ty |-> ty]

\* The two outcomes that are not values.
Diverges == [kind |-> "Diverges"]
Panics == [kind |-> "Panics"]
IsAbort(v) == v = Diverges \/ v = Panics

\* The first abort among a sequence of results, in evaluation order.
RECURSIVE first_abort(_)
first_abort(results) ==
    IF results = <<>> THEN <<>>
    ELSE IF IsAbort(Head(results)) THEN <<Head(results)>>
    ELSE first_abort(Tail(results))

\* A value built from parts that are evaluated in order before it: when
\* evaluating a part does not return, building the value does not either.
Strict(parts, value) ==
    IF first_abort(parts) # <<>> THEN first_abort(parts)[1] ELSE value

\* ------------------------------------------------------------------------
\* TypeParser (parser.rs, impl TypeParser)
\*
\* A method takes the text and the cursor and returns the cursor it leaves
\* (idx) with its result; hang says that a loop under it never ends.
\* ------------------------------------------------------------------------

\* TypeParser::skip_ws
RECURSIVE TypeParser_skip_ws(_, _)
TypeParser_skip_ws(src, idx) ==
    IF idx < Len(src) /\ is_whitespace(peek_char(src, idx))
    THEN TypeParser_skip_ws(src, idx + len_utf8(peek_char(src, idx)))
    ELSE idx

\* TypeParser::consume
TypeParser_consume(src, idx, ch) ==
    LET at == TypeParser_skip_ws(src, idx)
    IN  IF peek_char(src, at) = ch
        THEN [ok |-> TRUE, idx |-> at + len_utf8(ch)]
        ELSE [ok |-> FALSE, idx |-> at]

\* The while loop of TypeParser::parse_identifier.
RECURSIVE identifier_end(_, _)
identifier_end(src, idx) ==
    LET ch == peek_char(src, idx)
    IN  IF idx < Len(src) /\ ch # NoChar
           /\ (ch = "_" \/ is_alphanumeric(ch) \/ ch = "?")
        THEN identifier_end(src, idx + len_utf8(ch))
        ELSE idx

\* TypeParser::parse_identifier
TypeParser_parse_identifier(src, idx) ==
    LET start == TypeParser_skip_ws(src, idx)
        end == identifier_end(src, start)
    IN  [name |-> str_trim(slice(src, start, end)), idx |-> end]

\* TypeParser::parse_qualified_identifier, from one turn of its loop on.
RECURSIVE TypeParser_parse_qualified_identifier(_, _, _)
TypeParser_parse_qualified_identifier(src, idx, parts) ==
    LET after_dot(pushed, dot) ==
            IF ~dot.ok
            THEN [parts |-> pushed, idx |-> dot.idx]
            ELSE TypeParser_parse_qualified_identifier(src, dot.idx, pushed)
        after_ident(ident) ==
            IF ident.name = <<>>
            THEN [parts |-> parts, idx |-> ident.idx]
            ELSE after_dot(Append(parts, ident.name),
                           TypeParser_consume(
                               src, TypeParser_skip_ws(src, ident.idx), "."))
    IN  after_ident(TypeParser_parse_identifier(src, idx))

RECURSIVE TypeParser_parse_type_with_optional(_, _)
RECURSIVE TypeParser_parse_type_inner(_, _)
RECURSIVE TypeParser_parse_struct_fields(_, _, _)
RECURSIVE TypeParser_parse_type_arguments(_, _, _, _)

\* Option<TypeExpr>::unwrap_or(Unknown(""))
unwrap_or_unknown(r) == IF r.some THEN r.ty ELSE Unknown(<<>>)

\* What a TypeParser method returns, with the cursor it leaves.  hang says
\* that a loop in it repeats a turn that changes nothing it reads, so that
\* the method never returns.
TypeNone(idx) == [some |-> FALSE, ty |-> Unknown(<<>>), idx |-> idx, hang |-> FALSE]
TypeSome(ty, idx) == [some |-> TRUE, ty |-> ty, idx |-> idx, hang |-> FALSE]
TypeHang(idx) == [some |-> FALSE, ty |-> Unknown(<<>>), idx |-> idx, hang |-> TRUE]

\* The end of TypeParser::parse_type_with_optional, after parse_type_inner
\* returned r.
optional_suffix(src, r) ==
    LET at == TypeParser_skip_ws(src, r.idx)
    IN  IF r.hang \/ ~r.some THEN r
        ELSE IF peek_char(src, at) = "?" THEN TypeSome(Optional(r.ty), at + 1)
        ELSE TypeSome(r.ty, at)

\* TypeParser::parse_type_with_optional
TypeParser_parse_type_with_optional(src, idx) ==
    optional_suffix(src, TypeParser_parse_type_inner(src, idx))

\* Some(TypeExpr::Struct(fields)) of TypeParser::parse_type_inner
struct_type(f) ==
    IF f.hang THEN TypeHang(f.idx) ELSE TypeSome(Struct(f.fields), f.idx)

\* Some(TypeExpr::Generic { base, arguments }) of TypeParser::parse_type_inner
generic_type(base, a) ==
    IF a.hang THEN TypeHang(a.idx) ELSE TypeSome(Generic(base, a.args), a.idx)

\* list_type without the test for the base List: the element type becomes
\* the one argument of a Generic.
list_type_as_generic(src, r) ==
    IF r.hang THEN TypeHang(r.idx)
    ELSE TypeSome(Generic(<<Str("List")>>, <<unwrap_or_unknown(r)>>),
                  TypeParser_consume(src, TypeParser_skip_ws(src, r.idx), "]").idx)

\* Some(TypeExpr::List(elem_ty)) of TypeParser::parse_type_inner for the
\* element type r, with the `]` after it consumed if it is there.
list_type(src, r) ==
    IF r.hang THEN TypeHang(r.idx)
    ELSE TypeSome(List(unwrap_or_unknown(r)),
                  TypeParser_consume(src, TypeParser_skip_ws(src, r.idx), "]").idx)

\* The part of TypeParser::parse_type_inner after parse_qualified_identifier
\* returned q.
named_type(src, q) ==
    LET angle == TypeParser_consume(src, TypeParser_skip_ws(src, q.idx), "<")
        square == TypeParser_consume(src, TypeParser_skip_ws(src, angle.idx), "[")
        at == TypeParser_skip_ws(src, square.idx)
    IN  IF q.parts = <<>> THEN TypeNone(q.idx)
        ELSE IF angle.ok
        THEN generic_type(q.parts,
                          TypeParser_parse_type_arguments(src, angle.idx, ">", <<>>))
        ELSE IF ~square.ok THEN TypeSome(Simple(q.parts), square.idx)
        ELSE IF Len(q.parts) # 1 \/ q.parts[1] # Str("List")
        THEN generic_type(q.parts,
                          TypeParser_parse_type_arguments(src, at, "]", <<>>))
        ELSE IF peek_char(src, at) = "]"
        THEN TypeSome(List(Simple(q.parts)), at + 1)
        ELSE list_type(src, TypeParser_parse_type_with_optional(src, at))

\* TypeParser::parse_type_inner
TypeParser_parse_type_inner(src, idx) ==
    LET start == TypeParser_skip_ws(src, idx)
    IN  IF start >= Len(src) THEN TypeNone(start)
        ELSE IF peek_char(src, start) = "{"
        THEN struct_type(TypeParser_parse_struct_fields(src, start + 1, <<>>))
        ELSE named_type(src, TypeParser_parse_qualified_identifier(src, start, <<>>))

\* The name and the flag TypeParser::parse_struct_fields stores for the
\* identifier it read.
struct_field_name(ident) ==
    IF ends_with(ident, <<"?">>) THEN trim_end_matches(ident, "?") ELSE ident

struct_field_optional(ident) == ends_with(ident, <<"?">>)

\* TypeParser::parse_struct_fields, from one turn of its loop on.
TypeParser_parse_struct_fields(src, idx, fields) ==
    LET closed(pushed, last) ==
            [fields |-> pushed,
             idx |-> IF peek_char(src, last) = "}" THEN last + 1 ELSE last,
             hang |-> FALSE]
        after_comma(pushed, comma) ==
            IF comma.ok
            THEN TypeParser_parse_struct_fields(src, comma.idx, pushed)
            ELSE closed(pushed, TypeParser_skip_ws(src, comma.idx))
        after_type(ident, r) ==
            IF r.hang
            THEN [fields |-> fields, idx |-> r.idx, hang |-> TRUE]
            ELSE after_comma(
                     Append(fields,
                            StructFieldType(struct_field_name(ident),
                                            struct_field_optional(ident),
                                            unwrap_or_unknown(r))),
                     TypeParser_consume(src, TypeParser_skip_ws(src, r.idx), ","))
        after_colon(ident, colon) ==
            IF ~colon.ok
            THEN [fields |-> fields, idx |-> colon.idx, hang |-> FALSE]
            ELSE after_type(ident,
                            TypeParser_parse_type_with_optional(src, colon.idx))
        after_ident(ident) ==
            IF ident.name = <<>>
            THEN [fields |-> fields, idx |-> ident.idx, hang |-> FALSE]
            ELSE after_colon(ident.name,
                             TypeParser_consume(
                                 src, TypeParser_skip_ws(src, ident.idx), ":"))
        from(start) ==
            IF peek_char(src, start) = "}"
            THEN [fields |-> fields, idx |-> start + 1, hang |-> FALSE]
            ELSE after_ident(TypeParser_parse_identifier(src, start))
    IN  from(TypeParser_skip_ws(src, idx))

\* TypeParser::parse_type_arguments, from one turn of its loop on.  A turn
\* that reaches its end with the cursor where the turn began is repeated
\* without end, pushing one more Unknown("") each time.
TypeParser_parse_type_arguments(src, idx, closing, args) ==
    LET after_comma(pushed, comma) ==
            IF comma.idx = idx
            THEN [args |-> pushed, idx |-> idx, hang |-> TRUE]
            ELSE TypeParser_parse_type_arguments(src, comma.idx, closing, pushed)
        after_close(pushed, close) ==
            IF close.ok
            THEN [args |-> pushed, idx |-> close.idx, hang |-> FALSE]
            ELSE after_comma(pushed, TypeParser_consume(src, close.idx, ","))
        after_type(r) ==
            IF r.hang
            THEN [args |-> args, idx |-> r.idx, hang |-> TRUE]
            ELSE after_close(
                     Append(args, unwrap_or_unknown(r)),
                     TypeParser_consume(
                         src, TypeParser_skip_ws(src, r.idx), closing))
        from(start) ==
            IF peek_char(src, start) = closing
            THEN [args |-> args, idx |-> start + len_utf8(closing), hang |-> FALSE]
            ELSE after_type(TypeParser_parse_type_with_optional(src, start))
    IN  from(TypeParser_skip_ws(src, idx))

\* The end of TypeParser::parse, after parse_type_with_optional returned r
\* for the trimmed text src.
parsed_type(src, r) ==
    IF src = <<>> THEN Unknown(<<>>)
    ELSE IF r.hang THEN Diverges
    ELSE IF ~r.some THEN Unknown(str_trim(src))
    ELSE IF TypeParser_skip_ws(src, r.idx) < Len(src) THEN Unknown(str_trim(src))
    ELSE r.ty

\* TypeParser::new(raw).parse()
TypeParser_parse(raw) ==
    parsed_type(str_trim(raw), TypeParser_parse_type_with_optional(str_trim(raw), 0))

\* fn parse_type_expr
parse_type_expr(raw) == TypeParser_parse(raw)

\* ------------------------------------------------------------------------
\* Expressions (parser.rs, parse_expression and its helpers)
\* ------------------------------------------------------------------------

Identifier(name) == [kind |-> "Identifier", name |-> name]
Literal(raw) == [kind |-> "Literal", raw |-> raw]
Call(target, args) ==
    Strict(<<target>> \o args, [kind |-> "Call", target |-> target, args |-> args])
Member(target, property) ==
    Strict(<<target>>, [kind |-> "Member", target |-> target, property |-> property])
Binary(left, op, right) ==
    Strict(<<left, right>>,
           [kind |-> "Binary", left |-> left, op |-> op, right |-> right])
Raw(text) == [kind |-> "Raw", text |-> text]

\* src.chars().collect::<Vec<char>>(): one entry per character.
RECURSIVE chars_from(_, _)
chars_from(src, idx) ==
    IF idx >= Len(src) THEN <<>>
    ELSE IF is_continuation_byte(src[idx + 1]) THEN chars_from(src, idx + 1)
    ELSE <<src[idx + 1]>> \o chars_from(src, idx + 1)

chars(src) == chars_from(src, 0)

\* fn is_identifier
is_identifier(s) ==
    LET cs == chars(s)
    IN  /\ cs # <<>>
        /\ cs[1] = "_" \/ is_alphabetic(cs[1])
        /\ \A i \in 2..Len(cs) : cs[i] = "_" \/ is_alphanumeric(cs[i])

\* char::to_ascii_lowercase
to_ascii_lowercase(ch) ==
    LET upper == Str("ABCDEFGHIJKLMNOPQRSTUVWXYZ")
        lower == Str("abcdefghijklmnopqrstuvwxyz")
    IN  IF \E i \in 1..26 : upper[i] = ch
        THEN lower[CHOOSE i \in 1..26 : upper[i] = ch]
        ELSE ch

all_digits(s) == \A i \in 1..Len(s) : s[i] \in AsciiDigits

\* The decimal part of a float literal: digits with at most one point and
\* at least one digit.
is_decimal(s) ==
    LET dot == find_from(s, 0, ".")
    IN  IF dot < 0 THEN s # <<>> /\ all_digits(s)
        ELSE /\ all_digits(SubSeq(s, 1, dot))
             /\ all_digits(SubSeq(s, dot + 2, Len(s)))
             /\ Len(s) > 1

\* The exponent of a float literal, after its `e`.
is_exponent(s) ==
    LET digits == IF s # <<>> /\ s[1] \in {"+", "-"} THEN Tail(s) ELSE s
    IN  digits # <<>> /\ all_digits(digits)

\* s.parse::<f64>().is_ok()
parses_as_f64(s) ==
    LET float(lower, e) ==
            \/ lower \in {Str("inf"), Str("infinity"), Str("nan")}
            \/ IF e < 0 THEN is_decimal(lower)
               ELSE /\ is_decimal(SubSeq(lower, 1, e))
                    /\ is_exponent(SubSeq(lower, e + 2, Len(lower)))
        lowered(lower) == float(lower, find_from(lower, 0, "e"))
        unsigned(digits) ==
            lowered([i \in 1..Len(digits) |-> to_ascii_lowercase(digits[i])])
    IN  unsigned(IF s # <<>> /\ s[1] \in {"+", "-"} THEN Tail(s) ELSE s)

\* fn is_literal
is_literal(s) ==
    \/ starts_with_at(s, 0, <<"\"">>) /\ ends_with(s, <<"\"">>)
    \/ parses_as_f64(s)
    \/ s \in {Str("true"), Str("false")}

\* The for loop of split_args over the characters: idx counts characters,
\* and the slices it takes use idx as a byte offset.
RECURSIVE split_args_loop(_, _, _, _, _, _)
split_args_loop(src, cs, idx, depth, start, args) ==
    IF idx >= Len(cs)
    THEN [panic |-> FALSE, start |-> start, args |-> args]
    ELSE LET ch == cs[idx + 1]
         IN  IF ch \in {"(", "{", "["}
             THEN split_args_loop(src, cs, idx + 1, depth + 1, start, args)
             ELSE IF ch \in {")", "}", "]"}
             THEN split_args_loop(src, cs, idx + 1,
                                  IF depth > 0 THEN depth - 1 ELSE depth,
                                  start, args)
             ELSE IF ch = "," /\ depth = 0
             THEN IF ~slice_ok(src, start, idx)
                  THEN [panic |-> TRUE, start |-> start, args |-> args]
                  ELSE split_args_loop(src, cs, idx + 1, depth, idx + 1,
                                       Append(args, str_trim(slice(src, start, idx))))
             ELSE split_args_loop(src, cs, idx + 1, depth, start, args)

\* fn split_args
split_args(src) ==
    LET with_tail(args, tail) ==
            [panic |-> FALSE,
             args |-> IF tail # <<>> THEN Append(args, tail) ELSE args]
        after_loop(r) ==
            IF r.panic \/ ~slice_ok(src, r.start, Len(src))
            THEN [panic |-> TRUE, args |-> <<>>]
            ELSE with_tail(r.args, str_trim(slice(src, r.start, Len(src))))
    IN  after_loop(split_args_loop(src, chars(src), 0, 0, 0, <<>>))

ExprNone == [kind |-> "None"]

\* fn parse_call_expression
parse_call_expression(src) ==
    LET split(target, args) ==
            IF args.panic THEN Panics
            ELSE [kind |-> "Some", target |-> target, args |-> args.args]
        between(open_paren, close_paren, target) ==
            IF target = <<>> THEN ExprNone
            ELSE split(target, split_args(slice(src, open_paren + 1, close_paren)))
        parens(open_paren, close_paren) ==
            IF open_paren < 0 \/ close_paren < 0 THEN ExprNone
            ELSE IF close_paren < open_paren THEN ExprNone
            ELSE between(open_paren, close_paren,
                         str_trim(slice(src, 0, open_paren)))
    IN  parens(find_from(src, 0, "("), rfind_upto(src, Len(src), ")"))

\* The depth a right-to-left scan over the characters cs has when it
\* reaches character at, having started at character idx with depth: every
\* closing bracket it passed added one, every opening bracket took one off.
depth_from_right(cs, at, idx, depth) ==
    depth + Cardinality({j \in (at + 2)..(idx + 1) : cs[j] \in {")", "]", "}"}})
          - Cardinality({j \in (at + 2)..(idx + 1) : cs[j] \in {"(", "[", "{"}})

\* The greatest element of a set of numbers that is not empty.
greatest(S) == CHOOSE i \in S : \A j \in S : j <= i

\* The turn of the loop of parse_member_expression on a `.` at depth zero
\* (idx counts characters from the left and is used as a byte offset).
member_split_at(src, idx) ==
    LET split(target, property) ==
            IF target # <<>> /\ is_identifier(property)
            THEN [kind |-> "Some", target |-> target, property |-> property]
            ELSE ExprNone
    IN  IF ~slice_ok(src, 0, idx) \/ ~slice_ok(src, idx + 1, Len(src))
        THEN Panics
        ELSE split(str_trim(slice(src, 0, idx)),
                   str_trim(slice(src, idx + 1, Len(src))))

\* fn parse_member_expression, from one turn of its loop on: the loop
\* ends at the first `.` at depth zero, from the right, whose turn returns
\* or panics.
parse_member_loop(src, cs, idx, depth) ==
    LET hits == {i \in 0..idx :
                     /\ cs[i + 1] = "."
                     /\ depth_from_right(cs, i, idx, depth) = 0
                     /\ member_split_at(src, i).kind # "None"}
    IN  IF hits = {} THEN ExprNone ELSE member_split_at(src, greatest(hits))

parse_member_expression(src) ==
    parse_member_loop(src, chars(src), Len(chars(src)) - 1, 0)

\* The operators of parse_binary_expression, in the order it tries them.
ops ==
    <<Str("=="), Str("!="), Str("<="), Str(">="), Str("&&"), Str("||"),
      Str("+"), Str("-"), Str("*"), Str("/"), Str("%"), Str("<"), Str(">")>>

\* The inner for loop of parse_binary_expression at character idx, from
\* operator k on.
RECURSIVE binary_try_ops(_, _, _)
binary_try_ops(src, idx, k) ==
    LET split(left, op, right) ==
            IF left # <<>> /\ right # <<>>
            THEN [kind |-> "Some", left |-> left, op |-> op, right |-> right]
            ELSE binary_try_ops(src, idx, k + 1)
        try(op, from) ==
            IF idx + 1 < Len(op) THEN binary_try_ops(src, idx, k + 1)
            ELSE IF ~slice_ok(src, from, idx + 1) THEN Panics
            ELSE IF slice(src, from, idx + 1) # op
            THEN binary_try_ops(src, idx, k + 1)
            ELSE split(str_trim(slice(src, 0, from)), op,
                       str_trim(slice(src, idx + 1, Len(src))))
    IN  IF k > Len(ops) THEN ExprNone
        ELSE try(ops[k], idx + 1 - Len(ops[k]))

\* parse_binary_loop without the bracket depth: every character is tried.
parse_binary_loop_any_depth(src, cs, idx, depth) ==
    LET hits == {i \in 0..idx : binary_try_ops(src, i, 1).kind # "None"}
    IN  IF hits = {} THEN ExprNone ELSE binary_try_ops(src, greatest(hits), 1)

\* fn parse_binary_expression, from one turn of its outer loop on: the
\* loop ends at the first character at depth zero, from the right, that is
\* no bracket and at which the inner loop returns or panics.
parse_binary_loop(src, cs, idx, depth) ==
    LET hits == {i \in 0..idx :
                     /\ cs[i + 1] \notin {")", "]", "}", "(", "[", "{"}
                     /\ depth_from_right(cs, i, idx, depth) = 0
                     /\ binary_try_ops(src, i, 1).kind # "None"}
    IN  IF hits = {} THEN ExprNone ELSE binary_try_ops(src, greatest(hits), 1)

parse_binary_expression(src) ==
    parse_binary_loop(src, chars(src), Len(chars(src)) - 1, 0)

RECURSIVE parse_expression(_)
RECURSIVE parse_expressions(_)

\* args.into_iter().map(parse_expression).collect()
parse_expressions(args) ==
    IF args = <<>> THEN <<>>
    ELSE <<parse_expression(Head(args))>> \o parse_expressions(Tail(args))

\* The end of parse_expression, after parse_member_expression returned
\* member.
or_member(trimmed, member) ==
    IF member.kind = "Panics" THEN Panics
    ELSE IF member.kind = "Some"
    THEN Member(parse_expression(member.target), member.property)
    ELSE IF is_identifier(trimmed) THEN Identifier(trimmed)
    ELSE IF is_literal(trimmed) THEN Literal(trimmed)
    ELSE Raw(trimmed)

\* The part of parse_expression after parse_binary_expression returned
\* binary.
or_binary(trimmed, binary) ==
    IF binary.kind = "Panics" THEN Panics
    ELSE IF binary.kind = "Some"
    THEN Binary(parse_expression(binary.left), binary.op,
                parse_expression(binary.right))
    ELSE or_member(trimmed, parse_member_expression(trimmed))

\* The part of parse_expression after parse_call_expression returned call.
or_call(trimmed, call) ==
    IF call.kind = "Panics" THEN Panics
    ELSE IF call.kind = "Some"
    THEN Call(parse_expression(call.target), parse_expressions(call.args))
    ELSE or_binary(trimmed, parse_binary_expression(trimmed))

\* fn parse_expression
parse_expression(src) ==
    IF str_trim(src) = <<>> THEN Raw(<<>>)
    ELSE or_call(str_trim(src), parse_call_expression(str_trim(src)))

\* ------------------------------------------------------------------------
\* Lexical skipper and primitive scanners (parser.rs, free functions)
\* ------------------------------------------------------------------------

\* fn is_ident_start
is_ident_start(ch) == ch = "_" \/ is_alphabetic(ch)

\* fn is_ident_continue (of an Option<char>)
is_ident_continue(ch) == ch # NoChar /\ (ch = "_" \/ is_alphanumeric(ch))

\* fn starts_with_keyword
starts_with_keyword(src, idx, keyword) ==
    /\ idx < Len(src)
    /\ starts_with_at(src, idx, keyword)
    /\ ~is_ident_continue(peek_char(src, idx + Len(keyword)))

\* fn skip_ws_spaces
RECURSIVE skip_ws_spaces(_, _)
skip_ws_spaces(src, idx) ==
    LET ch == peek_char(src, idx)
    IN  IF idx < Len(src) /\ ch # NoChar /\ is_whitespace(ch)
        THEN skip_ws_spaces(src, idx + len_utf8(ch))
        ELSE idx

\* fn skip_line_comment
RECURSIVE skip_line_comment(_, _)
skip_line_comment(src, idx) ==
    LET ch == peek_char(src, idx)
    IN  IF idx >= Len(src) \/ ch = NoChar THEN idx
        ELSE IF ch = "\n" THEN idx + len_utf8(ch)
        ELSE skip_line_comment(src, idx + len_utf8(ch))

\* fn skip_block_comment
RECURSIVE skip_block_comment(_, _)
skip_block_comment(src, idx) ==
    LET ch == peek_char(src, idx)
    IN  IF ~(idx + 1 < Len(src)) THEN idx
        ELSE IF starts_with_at(src, idx, Str("*/")) THEN idx + 2
        ELSE IF ch = NoChar THEN idx
        ELSE skip_block_comment(src, idx + len_utf8(ch))

\* fn skip_doc_comments
RECURSIVE skip_doc_comments(_, _)
skip_doc_comments(src, idx) ==
    LET from(at) ==
            IF at < Len(src) /\ starts_with_at(src, at, Str("///"))
            THEN skip_doc_comments(src, skip_line_comment(src, at + 3))
            ELSE at
    IN  from(skip_ws_spaces(src, idx))

\* fn skip_ws
RECURSIVE skip_ws(_, _)
skip_ws(src, idx) ==
    LET from(at) ==
            IF at < Len(src) /\ starts_with_at(src, at, Str("///"))
            THEN skip_ws(src, skip_line_comment(src, at + 3))
            ELSE IF at < Len(src) /\ starts_with_at(src, at, Str("//"))
            THEN skip_ws(src, skip_line_comment(src, at + 2))
            ELSE IF at < Len(src) /\ starts_with_at(src, at, Str("/*"))
            THEN skip_ws(src, skip_block_comment(src, at + 2))
            ELSE IF at # idx THEN skip_ws(src, at)
            ELSE at
    IN  from(skip_ws_spaces(src, idx))

ScanNone == [some |-> FALSE, text |-> <<>>, idx |-> 0]
ScanSome(text, idx) == [some |-> TRUE, text |-> text, idx |-> idx]

\* The for loop of take_ident: the end of the identifier that has its
\* first character before end.
RECURSIVE take_ident_end(_, _)
take_ident_end(src, end) ==
    LET ch == peek_char(src, end)
    IN  IF is_ident_continue(ch) THEN take_ident_end(src, end + len_utf8(ch))
        ELSE end

\* fn take_ident
take_ident(src, start) ==
    LET taken(end) == ScanSome(slice(src, start, end), end)
        first(first_char) ==
            IF start >= Len(src) \/ first_char = NoChar THEN ScanNone
            ELSE IF ~is_ident_start(first_char) THEN ScanNone
            ELSE taken(take_ident_end(src, start + len_utf8(first_char)))
    IN  first(peek_char(src, start))

\* The while loop of take_string_literal.
RECURSIVE take_string_loop(_, _, _, _)
take_string_loop(src, idx, escape, result) ==
    LET ch == peek_char(src, idx)
        after == idx + len_utf8(ch)
        pushed == result \o slice(src, idx, after)
    IN  IF idx >= Len(src) \/ ch = NoChar THEN ScanNone
        ELSE IF escape THEN take_string_loop(src, after, FALSE, pushed)
        ELSE IF ch = "\\" THEN take_string_loop(src, after, TRUE, result)
        ELSE IF ch = "\"" THEN ScanSome(result, after)
        ELSE take_string_loop(src, after, FALSE, pushed)

\* fn take_string_literal
take_string_literal(src, start) ==
    IF start >= Len(src) \/ peek_char(src, start) # "\"" THEN ScanNone
    ELSE take_string_loop(src, start + 1, FALSE, <<>>)

\* The offset of the first character at or after idx that is one of
\* marks, or the length of the text when there is none.
next_mark(src, idx, marks) ==
    LET hits == {i \in idx..(Len(src) - 1) : src[i + 1] \in marks}
    IN  IF hits = {} THEN Len(src) ELSE CHOOSE i \in hits : \A j \in hits : i <= j

\* extract_balanced_loop without the string state: a quote is a character
\* like any other.
RECURSIVE extract_balanced_loop_no_strings(_, _, _, _, _, _, _, _)
extract_balanced_loop_no_strings(src, idx, open, close, depth, in_string, escape, content_start) ==
    LET at == next_mark(src, idx, {open, close})
        ch == peek_char(src, at)
        after == at + len_utf8(ch)
    IN  IF at >= Len(src) \/ ch = NoChar THEN ScanNone
        ELSE IF ch = open
        THEN extract_balanced_loop_no_strings(src, after, open, close, depth + 1,
                                              FALSE, FALSE, content_start)
        ELSE IF depth - 1 = 0
        THEN ScanSome(slice(src, content_start, after - len_utf8(close)), after)
        ELSE extract_balanced_loop_no_strings(src, after, open, close, depth - 1,
                                              FALSE, FALSE, content_start)

\* The while loop of extract_balanced.  A turn on a character that is
\* neither a quote, a backslash, open nor close (outside a string), or
\* neither a quote nor a backslash (inside one, not escaped), only moves
\* idx past it: one step takes the run of such turns (at) and then the
\* turn on the character after them.
RECURSIVE extract_balanced_loop(_, _, _, _, _, _, _, _)
extract_balanced_loop(src, idx, open, close, depth, in_string, escape, content_start) ==
    LET at == IF escape THEN idx
              ELSE IF in_string THEN next_mark(src, idx, {"\\", "\""})
              ELSE next_mark(src, idx, {"\"", open, close})
        ch == peek_char(src, at)
        after == at + len_utf8(ch)
    IN  IF at >= Len(src) \/ ch = NoChar THEN ScanNone
        ELSE IF in_string
        THEN IF escape
             THEN extract_balanced_loop(src, after, open, close, depth,
                                        TRUE, FALSE, content_start)
             ELSE extract_balanced_loop(src, after, open, close, depth,
                                        ch # "\"", ch = "\\", content_start)
        ELSE IF ch = "\""
        THEN extract_balanced_loop(src, after, open, close, depth,
                                   TRUE, FALSE, content_start)
        ELSE IF ch = open
        THEN extract_balanced_loop(src, after, open, close, depth + 1,
                                   FALSE, FALSE, content_start)
        ELSE IF ch = close
        THEN IF depth - 1 = 0
             THEN ScanSome(slice(src, content_start, after - len_utf8(close)), after)
             ELSE extract_balanced_loop(src, after, open, close, depth - 1,
                                        FALSE, FALSE, content_start)
        ELSE extract_balanced_loop(src, after, open, close, depth,
                                   FALSE, FALSE, content_start)

\* fn extract_balanced
extract_balanced(src, start, open, close) ==
    IF start >= Len(src) \/ peek_char(src, start) # open THEN ScanNone
    ELSE extract_balanced_loop(src, start + len_utf8(open), open, close, 1,
                               FALSE, FALSE, start + len_utf8(open))

\* ------------------------------------------------------------------------
\* Statements and blocks (parser.rs, build_block .. parse_let_statement)
\* ------------------------------------------------------------------------

\* Option<T>: None is the empty sequence, Some(x) the sequence of x.
None == <<>>
Some(x) == <<x>>

Let(name, ty, value) ==
    Strict(ty \o value, [kind |-> "Let", name |-> name, ty |-> ty, value |-> value])
Return(value) == Strict(value, [kind |-> "Return", value |-> value])
Expr(expression) ==
    Strict(<<expression>>, [kind |-> "Expr", expression |-> expression])
Block(raw, statements) ==
    Strict(statements, [kind |-> "Block", raw |-> raw, statements |-> statements])

\* fn parse_let_statement
parse_let_statement(rest) ==
    LET eq == split_once(rest, "=")
        name_part == IF eq = <<>> THEN rest ELSE str_trim(eq[1])
        colon == split_once(name_part, ":")
    IN  Let(IF colon = <<>> THEN str_trim(name_part) ELSE str_trim(colon[1]),
            IF colon = <<>> THEN None ELSE Some(parse_type_expr(str_trim(colon[2]))),
            IF eq = <<>> THEN None ELSE Some(parse_expression(str_trim(eq[2]))))

\* fn parse_statement
parse_statement(line) ==
    IF starts_with_at(line, 0, Str("let "))
    THEN parse_let_statement(str_trim(slice(line, 4, Len(line))))
    ELSE IF starts_with_at(line, 0, Str("return"))
    THEN Return(IF str_trim(slice(line, 6, Len(line))) = <<>> THEN None
                ELSE Some(parse_expression(str_trim(slice(line, 6, Len(line))))))
    ELSE Expr(parse_expression(line))

\* The iterator chain of build_block over the lines of the body.
RECURSIVE block_statements(_)
block_statements(lines) ==
    IF lines = <<>> THEN <<>>
    ELSE IF str_trim(Head(lines)) \in {<<>>, <<"{">>, <<"}">>}
    THEN block_statements(Tail(lines))
    ELSE <<parse_statement(str_trim(Head(lines)))>> \o block_statements(Tail(lines))

\* build_block with the body taken as one line.
build_block_unsplit(body_src) ==
    Block(str_trim(body_src), block_statements(<<str_trim(body_src)>>))

\* fn build_block
build_block(body_src) ==
    Block(str_trim(body_src), block_statements(str_lines(str_trim(body_src))))

\* ------------------------------------------------------------------------
\* Declarations (parser.rs, parse_record_decl .. parse_params)
\* ------------------------------------------------------------------------

RecordField(name, optional, ty) ==
    Strict(<<ty>>, [name |-> name, optional |-> optional, ty |-> ty])
Param(name, ty, default) ==
    Strict(<<ty>>, [name |-> name, ty |-> ty, default |-> default])

Record(name, type_params, fields) ==
    Strict(fields,
           [kind |-> "Record", name |-> name, type_params |-> type_params,
            fields |-> fields])
Task(name, params, return_type, body) ==
    Strict(params \o return_type \o <<body>>,
           [kind |-> "Task", name |-> name, params |-> params,
            return_type |-> return_type, body |-> body])
Workflow(name, body) ==
    Strict(<<body>>, [kind |-> "Workflow", name |-> name, body |-> body])
Test(name, body) ==
    Strict(<<body>>, [kind |-> "Test", name |-> name, body |-> body])
Other(text) == [kind |-> "Other", text |-> text]

\* The name parse_record_fields stores for the text before the colon: the
\* trimmed text, and when that ends with `?`, pop(), then
\* trim_end_matches('?'), then trim().
record_field_name(name_part) ==
    IF ends_with(str_trim(name_part), <<"?">>)
    THEN str_trim(trim_end_matches(
             SubSeq(str_trim(name_part), 1, Len(str_trim(name_part)) - 1), "?"))
    ELSE str_trim(name_part)

\* The flag parse_record_fields stores for the text before the colon.
record_field_optional(name_part) == ends_with(str_trim(name_part), <<"?">>)

\* The type text parse_record_fields takes from the text after the colon.
record_field_type_text(rest) ==
    IF split_once(rest, "=") = <<>>
    THEN str_trim(trim_end_matches(str_trim(rest), ","))
    ELSE str_trim(trim_end_matches(str_trim(split_once(rest, "=")[1]), ","))

\* The filter_map closure of parse_record_fields, over the lines.
RECURSIVE record_field_lines(_)
record_field_lines(lines) ==
    LET trimmed == str_trim(Head(lines))
        parts == split_once(trimmed, ":")
    IN  IF lines = <<>> THEN <<>>
        ELSE IF \/ trimmed = <<>>
                \/ starts_with_at(trimmed, 0, Str("//"))
                \/ starts_with_at(trimmed, 0, Str("/*"))
                \/ starts_with_at(trimmed, 0, Str("}"))
                \/ parts = <<>>
        THEN record_field_lines(Tail(lines))
        ELSE <<RecordField(record_field_name(parts[1]),
                           record_field_optional(parts[1]),
                           parse_type_expr(record_field_type_text(parts[2])))>>
             \o record_field_lines(Tail(lines))

\* fn parse_record_fields
parse_record_fields(body) == record_field_lines(str_lines(body))

\* The filter_map closure of parse_params, over the comma-separated parts.
RECURSIVE param_parts(_)
param_parts(parts) ==
    LET colon == split_once(str_trim(Head(parts)), ":")
        eq == split_once(str_trim(colon[2]), "=")
    IN  IF parts = <<>> THEN <<>>
        ELSE IF str_trim(Head(parts)) = <<>> \/ colon = <<>>
        THEN param_parts(Tail(parts))
        ELSE <<Param(str_trim(colon[1]),
                     parse_type_expr(IF eq = <<>> THEN str_trim(colon[2])
                                     ELSE str_trim(eq[1])),
                     IF eq = <<>> THEN None ELSE Some(str_trim(eq[2])))>>
             \o param_parts(Tail(parts))

\* fn parse_params
parse_params(src) == param_parts(str_split(src, ","))

\* What a declaration recognizer returns: no match, or the item with the
\* offset after it.
Declined == [kind |-> "None"]
Matched(item, next) ==
    Strict(<<item>>, [kind |-> "Some", item |-> item, next |-> next])

\* The type parameters of a record: params_src.split(',') trimmed, the
\* empty ones dropped.
RECURSIVE type_param_names(_)
type_param_names(parts) ==
    IF parts = <<>> THEN <<>>
    ELSE IF str_trim(Head(parts)) = <<>> THEN type_param_names(Tail(parts))
    ELSE <<str_trim(Head(parts))>> \o type_param_names(Tail(parts))

\* The part of parse_record_decl from the `<` or the `{` at idx on.
record_after_name(src, name, idx) ==
    LET generic == starts_with_at(src, idx, <<"<">>)
        params_src == extract_balanced(src, idx, "<", ">")
        brace == IF generic THEN skip_ws(src, params_src.idx) ELSE idx
        fields_src == extract_balanced(src, brace, "{", "}")
    IN  IF generic /\ ~params_src.some THEN Declined
        ELSE IF ~starts_with_at(src, brace, <<"{">>) THEN Declined
        ELSE IF ~fields_src.some THEN Declined
        ELSE Matched(Record(name,
                            IF generic
                            THEN type_param_names(str_split(params_src.text, ","))
                            ELSE <<>>,
                            parse_record_fields(fields_src.text)),
                     skip_ws(src, fields_src.idx))

\* fn parse_record_decl
parse_record_decl(src, start) ==
    LET kw == skip_doc_comments(src, start)
        name == take_ident(src, skip_ws(src, kw + 6))
    IN  IF ~starts_with_keyword(src, kw, Str("record")) THEN Declined
        ELSE IF ~name.some THEN Declined
        ELSE record_after_name(src, name.text, skip_ws(src, name.idx))

\* The while loop of parse_task_decl that looks for the `{` after `->`.
RECURSIVE return_type_end(_, _)
return_type_end(src, idx) ==
    LET ch == peek_char(src, idx)
    IN  IF idx < Len(src) /\ ~starts_with_at(src, idx, <<"{">>) /\ ch # NoChar
        THEN return_type_end(src, idx + len_utf8(ch))
        ELSE idx

\* The end of parse_task_decl, from the `{` at idx on, after its
\* return type was parsed.
task_after_return(src, name, params, return_type, idx) ==
    LET body_src == extract_balanced(src, idx, "{", "}")
    IN  IF first_abort(return_type) # <<>> THEN first_abort(return_type)[1]
        ELSE IF ~starts_with_at(src, idx, <<"{">>) THEN Declined
        ELSE IF ~body_src.some THEN Declined
        ELSE Matched(Task(name, params, return_type, build_block(body_src.text)),
                     skip_ws(src, body_src.idx))

\* The part of parse_task_decl from the offset idx after the parameter
\* list on, after parse_params returned params.
task_after_params(src, name, params, idx) ==
    LET arrow == idx < Len(src) /\ starts_with_at(src, idx, Str("->"))
        type_start == skip_ws(src, idx + 2)
        type_end == return_type_end(src, type_start)
        ty_str == str_trim(slice(src, type_start, type_end))
    IN  IF first_abort(params) # <<>> THEN first_abort(params)[1]
        ELSE task_after_return(
                 src, name, params,
                 IF arrow /\ ty_str # <<>> THEN Some(parse_type_expr(ty_str))
                 ELSE None,
                 skip_ws(src, IF arrow THEN type_end ELSE idx))

\* fn parse_task_decl
parse_task_decl(src, start) ==
    LET kw == skip_doc_comments(src, start)
        name == take_ident(src, skip_ws(src, kw + 4))
        paren == skip_ws(src, name.idx)
        params_src == extract_balanced(src, paren, "(", ")")
    IN  IF ~starts_with_keyword(src, kw, Str("task")) THEN Declined
        ELSE IF ~name.some THEN Declined
        ELSE IF ~starts_with_at(src, paren, <<"(">>) THEN Declined
        ELSE IF ~params_src.some THEN Declined
        ELSE task_after_params(src, name.text, parse_params(params_src.text),
                               skip_ws(src, params_src.idx))

\* fn parse_workflow_decl
parse_workflow_decl(src, start) ==
    LET kw == skip_doc_comments(src, start)
        name == take_ident(src, skip_ws(src, kw + 8))
        brace == skip_ws(src, name.idx)
        body_src == extract_balanced(src, brace, "{", "}")
    IN  IF ~starts_with_keyword(src, kw, Str("workflow")) THEN Declined
        ELSE IF ~name.some THEN Declined
        ELSE IF ~starts_with_at(src, brace, <<"{">>) THEN Declined
        ELSE IF ~body_src.some THEN Declined
        ELSE Matched(Workflow(name.text, build_block(body_src.text)),
                     skip_ws(src, body_src.idx))

\* fn parse_test_decl
parse_test_decl(src, start) ==
    LET kw == skip_doc_comments(src, start)
        at == skip_ws(src, kw + 4)
        name == IF starts_with_at(src, at, <<"\"">>)
                THEN take_string_literal(src, at)
                ELSE take_ident(src, at)
        brace == skip_ws(src, name.idx)
        body_src == extract_balanced(src, brace, "{", "}")
    IN  IF ~starts_with_keyword(src, kw, Str("test")) THEN Declined
        ELSE IF ~name.some THEN Declined
        ELSE IF ~starts_with_at(src, brace, <<"{">>) THEN Declined
        ELSE IF ~body_src.some THEN Declined
        ELSE Matched(Test(name.text, build_block(body_src.text)),
                     skip_ws(src, body_src.idx))

\* ------------------------------------------------------------------------
\* The header (parser.rs, parse_module .. ws): parser combinators of the
\* chumsky crate over the characters of the source.  A parser is an
\* operator from the text and an offset to [ok, idx, out]: whether it
\* matched, the offset after what it consumed, and its output.  A
\* combinator that fails consumes nothing: or_not and repeated rewind to
\* where the failed attempt began.
\* ------------------------------------------------------------------------

Import(path, members, alias) ==
    [path |-> path, members |-> members, alias |-> alias]
Module(name, imports, items) ==
    [name |-> name, imports |-> imports, items |-> items]

Fail(idx) == [ok |-> FALSE, idx |-> idx, out |-> <<>>]
Ok(idx, out) == [ok |-> TRUE, idx |-> idx, out |-> out]

\* filter(|c| *c != '\n').repeated(), then just('\n') or end(): the rest of
\* a comment line.
RECURSIVE comment_line_end(_, _)
comment_line_end(src, idx) ==
    IF idx >= Len(src) THEN idx
    ELSE IF src[idx + 1] = "\n" THEN idx + 1
    ELSE comment_line_end(src, idx + 1)

\* take_until(just("*/")): up to and including the first `*/`, or -1 when
\* there is none.
RECURSIVE take_until_close(_, _)
take_until_close(src, idx) ==
    IF idx >= Len(src) THEN -1
    ELSE IF starts_with_at(src, idx, Str("*/")) THEN idx + 2
    ELSE take_until_close(src, idx + 1)

\* fn ws: any run of whitespace, `///` and `//` comments, and block
\* comments.  block_comment is just("/*"), take_until(just("*/")), which
\* consumes the closing `*/`, and then just("*/") once more.
RECURSIVE ws(_, _)
ws(src, idx) ==
    LET block(closed) ==
            IF closed >= 0 /\ starts_with_at(src, closed, Str("*/"))
            THEN ws(src, closed + 2)
            ELSE idx
        choice(spaces) ==
            IF spaces > idx THEN ws(src, spaces)
            ELSE IF starts_with_at(src, idx, Str("///"))
            THEN ws(src, comment_line_end(src, idx + 3))
            ELSE IF starts_with_at(src, idx, Str("//"))
            THEN ws(src, comment_line_end(src, idx + 2))
            ELSE IF starts_with_at(src, idx, Str("/*"))
            THEN block(take_until_close(src, idx + 2))
            ELSE idx
    IN  choice(skip_ws_spaces(src, idx))

\* The repeated() of text::ident: ASCII letters, digits and `_`.
RECURSIVE ident_end(_, _)
ident_end(src, idx) ==
    IF idx < Len(src) /\ src[idx + 1] \in AsciiLetters \cup AsciiDigits \cup {"_"}
    THEN ident_end(src, idx + 1)
    ELSE idx

\* fn identifier (text::ident)
identifier(src, idx) ==
    LET upto(end) == Ok(end, slice(src, idx, end))
    IN  IF idx < Len(src) /\ src[idx + 1] \in AsciiLetters \cup {"_"}
        THEN upto(ident_end(src, idx + 1))
        ELSE Fail(idx)

\* text::keyword: an identifier that is the keyword.
keyword(src, idx, word) ==
    LET is_word(id) == IF id.ok /\ id.out = word THEN Ok(id.idx, word) ELSE Fail(idx)
    IN  is_word(identifier(src, idx))

\* just(ch)
just(src, idx, ch) ==
    IF idx < Len(src) /\ src[idx + 1] = ch THEN Ok(idx + 1, ch) ELSE Fail(idx)

\* identifier().then_ignore(ws()).separated_by(just(sep).then_ignore(ws())),
\* after an item that ended at idx: a separator with no item after it is
\* given back.
RECURSIVE separated_identifiers(_, _, _, _)
separated_identifiers(src, idx, sep, outs) ==
    LET after_item(item) ==
            IF item.ok
            THEN separated_identifiers(src, ws(src, item.idx), sep,
                                       Append(outs, item.out))
            ELSE Ok(idx, outs)
        after_delim(delim) ==
            IF delim.ok THEN after_item(identifier(src, ws(src, delim.idx)))
            ELSE Ok(idx, outs)
    IN  after_delim(just(src, idx, sep))

\* fn qualified_name
qualified_name(src, idx) ==
    LET after_first(first) ==
            IF ~first.ok THEN Fail(idx)
            ELSE separated_identifiers(src, ws(src, first.idx), ".", <<first.out>>)
    IN  after_first(identifier(src, idx))

\* fn alias_parser
alias_parser(src, idx) ==
    LET after_name(id) ==
            IF id.ok THEN Ok(ws(src, id.idx), id.out) ELSE Fail(idx)
        after_as(kw) ==
            IF kw.ok THEN after_name(identifier(src, ws(src, kw.idx)))
            ELSE Fail(idx)
    IN  after_as(keyword(src, ws(src, idx), Str("as")))

\* The separated_by(..).allow_trailing() of member_list_parser.
member_identifiers(src, idx) ==
    LET after_trailing(list, trailing) ==
            IF trailing.ok THEN Ok(ws(src, trailing.idx), list.out) ELSE list
        after_list(list) == after_trailing(list, just(src, list.idx, ","))
        after_first(first) ==
            IF ~first.ok THEN Ok(idx, <<>>)
            ELSE after_list(separated_identifiers(src, ws(src, first.idx), ",",
                                                  <<first.out>>))
    IN  after_first(identifier(src, idx))

\* The end of member_list_parser: the `}` after the list, and ws.
member_list_close(src, idx, list, close) ==
    IF close.ok THEN Ok(ws(src, close.idx), list.out) ELSE Fail(idx)

\* The middle of member_list_parser: the identifiers after the `{`.
member_list_items(src, idx, list) ==
    member_list_close(src, idx, list, just(src, ws(src, list.idx), "}"))

\* The start of member_list_parser: the `{`.
member_list_open(src, idx, open) ==
    IF open.ok THEN member_list_items(src, idx, member_identifiers(src, ws(src, open.idx)))
    ELSE Fail(idx)

\* fn member_list_parser
member_list_parser(src, idx) == member_list_open(src, idx, just(src, ws(src, idx), "{"))

\* What import_tail gives.
ImportTail(alias, members) == [alias |-> alias, members |-> members]

\* alias_parser().then(member_list_parser().or_not()), after the alias.
alias_or_not_members(alias, members) ==
    IF members.ok THEN Ok(members.idx, ImportTail(Some(alias.out), Some(members.out)))
    ELSE Ok(alias.idx, ImportTail(Some(alias.out), None))

\* alias_then_members of import_tail, from the result of alias_parser on.
alias_then(src, idx, alias) ==
    IF ~alias.ok THEN Fail(idx)
    ELSE alias_or_not_members(alias, member_list_parser(src, alias.idx))

\* alias_then_members of import_tail
alias_then_members(src, idx) == alias_then(src, idx, alias_parser(src, idx))

\* members_or_not_alias without the alias.
members_without_alias(members, alias) ==
    Ok(members.idx, ImportTail(None, Some(members.out)))

\* member_list_parser().then(alias_parser().or_not()), after the members.
members_or_not_alias(members, alias) ==
    IF alias.ok THEN Ok(alias.idx, ImportTail(Some(alias.out), Some(members.out)))
    ELSE Ok(members.idx, ImportTail(None, Some(members.out)))

\* members_then_alias of import_tail, from the result of
\* member_list_parser on.
members_then(src, idx, members) ==
    IF ~members.ok THEN Fail(idx)
    ELSE members_or_not_alias(members, alias_parser(src, members.idx))

\* members_then_alias of import_tail
members_then_alias(src, idx) == members_then(src, idx, member_list_parser(src, idx))

\* choice((alias_then_members, members_then_alias)).or_not(), after the
\* first alternative and after the second.
or_neither(idx, second) ==
    IF second.ok THEN second ELSE Ok(idx, ImportTail(None, None))
or_members_then_alias(src, idx, first) ==
    IF first.ok THEN first ELSE or_neither(idx, members_then_alias(src, idx))

\* fn import_tail
import_tail(src, idx) == or_members_then_alias(src, idx, alias_then_members(src, idx))

\* The map of import_parser.
import_with_tail(idx, path, tail) ==
    IF tail.ok THEN Ok(tail.idx, Import(path.out, tail.out.members, tail.out.alias))
    ELSE Fail(idx)

\* import_parser after the path.
import_after_path(src, idx, path) ==
    IF path.ok THEN import_with_tail(idx, path, import_tail(src, ws(src, path.idx)))
    ELSE Fail(idx)

\* import_parser after the keyword.
import_after_keyword(src, idx, kw) ==
    IF kw.ok THEN import_after_path(src, idx, qualified_name(src, ws(src, kw.idx)))
    ELSE Fail(idx)

\* fn import_parser
import_parser(src, idx) ==
    import_after_keyword(src, idx, keyword(src, ws(src, idx), Str("import")))

\* import_parser().repeated()
RECURSIVE imports_repeated(_, _, _)
RECURSIVE imports_more(_, _, _, _)
imports_more(src, idx, outs, import) ==
    IF import.ok THEN imports_repeated(src, import.idx, Append(outs, import.out))
    ELSE Ok(idx, outs)
imports_repeated(src, idx, outs) ==
    imports_more(src, idx, outs, import_parser(src, idx))

\* module_decl after the name.
module_decl_name(src, idx, name) ==
    IF name.ok THEN Ok(ws(src, name.idx), Some(name.out)) ELSE Ok(idx, None)

\* module_decl after the keyword.
module_decl_keyword(src, idx, kw) ==
    IF kw.ok THEN module_decl_name(src, idx, qualified_name(src, ws(src, kw.idx)))
    ELSE Ok(idx, None)

\* fn module_decl: (keyword, ws, qualified_name, ws).or_not()
module_decl(src, idx) == module_decl_keyword(src, idx, keyword(src, idx, Str("module")))

\* fn remainder: any().repeated().collect()
remainder(src, idx) == Ok(Len(src), slice(src, idx, Len(src)))

\* What the header part of module_parser gives: whether parse() returned
\* Ok, and the name, the imports and the remainder.
Header(ok, name, imports, body) ==
    [ok |-> ok, name |-> name, imports |-> imports, body |-> body]

\* module_parser after the remainder: ws and end.
header_end(source, name, imports, body) ==
    Header(body.ok /\ ws(source, body.idx) = Len(source), name.out, imports.out,
           body.out)

\* module_parser after the imports.
header_imports(source, name, imports) ==
    header_end(source, name, imports, remainder(source, imports.idx))

\* module_parser after module_decl.
header_name(source, name) ==
    header_imports(source, name, imports_repeated(source, name.idx, <<>>))

\* The header part of module_parser: ws, module_decl, the imports and the
\* remainder, and then ws and end.
module_header(source) == header_name(source, module_decl(source, ws(source, 0)))

\* ------------------------------------------------------------------------
\* The state
\* ------------------------------------------------------------------------

VARIABLES
    input,      \* the text given to the function under check, and how it was put together
    pc,         \* where the run is
    name,       \* parse_module: the module name the header gave
    imports,    \* parse_module: the imports the header gave
    body,       \* parse_module: the remainder handed to parse_items_from_remainder
    offset,     \* parse_items_from_remainder: its cursor into body
    items,      \* parse_items_from_remainder: the items pushed so far
    starts,     \* the value of offset at each push, in order
    result      \* what the function returned

vars == <<input, pc, name, imports, body, offset, items, starts, result>>

Pending == [kind |-> "Pending"]

\* Result<Module, HiloParseError>
OkModule(module) == [kind |-> "Ok", module |-> module]
ErrParse == [kind |-> "Err", error |-> "Parse"]

\* The concatenation of a sequence of texts.
RECURSIVE concat(_)
concat(texts) == IF texts = <<>> THEN <<>> ELSE Head(texts) \o concat(Tail(texts))

\* All sequences over a set with at most n elements.
RECURSIVE SeqsUpTo(_, _)
SeqsUpTo(S, n) ==
    IF n = 0 THEN {<<>>}
    ELSE SeqsUpTo(S, n - 1)
         \cup {Append(q, x) : q \in {r \in SeqsUpTo(S, n - 1) : Len(r) = n - 1}, x \in S}

\* ------------------------------------------------------------------------
\* parse_module on whole sources
\* ------------------------------------------------------------------------

\* The most parts (import clauses and declarations) that follow the head
\* of a source.
MaxParts == 2

\* The heads a source may start with: nothing, a module line, a module
\* line and two imports, and a module keyword with no name.  name and paths
\* are what a well-formed head declares.
Heads ==
    <<[text |-> <<>>, wellformed |-> TRUE, name |-> None, paths |-> <<>>],
      [text |-> Str("module a.b\n"), wellformed |-> TRUE,
       name |-> Some(<<Str("a"), Str("b")>>), paths |-> <<>>],
      [text |-> Str("module m\nimport h.i as j\nimport k\n"), wellformed |-> TRUE,
       name |-> Some(<<Str("m")>>), paths |-> <<(<<Str("h"), Str("i")>>), (<<Str("k")>>)>>],
      [text |-> Str("module\n"), wellformed |-> FALSE, name |-> None,
       paths |-> <<>>]>>

\* The parts a source may be made of: import clauses, declarations,
\* malformed ones, and a block comment that is not closed.  what says what the part is; path, name and opens are
\* what a part declares and the text its declaration begins with.
Part(what, text, path, declares, opens) ==
    [what |-> what, text |-> text, path |-> path, name |-> declares,
     opens |-> opens]
Parts ==
    <<Part("import", Str("import core.io\n"), <<Str("core"), Str("io")>>, <<>>, <<>>),
      Part("import", Str("import t.x { f, g } as u\n"), <<Str("t"), Str("x")>>,
           <<>>, <<>>),
      Part("import", Str("import v as w { h }\n"), <<Str("v")>>, <<>>, <<>>),
      Part("import_no_path", Str("import\n"), <<>>, <<>>, <<>>),
      Part("import_unmatched", Str("import p.q { a, b\n"), <<Str("p"), Str("q")>>,
           <<>>, <<>>),
      Part("Record", Str("record R<T> {\n a?: List[T]\n}\n"), <<>>, Str("R"),
           Str("record R<")),
      Part("Task",
           Str("task T(x: Int = 0) -> S {\n let y = f(x) + 1\n return y\n}\n"),
           <<>>, Str("T"), Str("task T(")),
      Part("Workflow", Str("/// doc\nworkflow W {\n s.run(a, b)\n}\n"), <<>>,
           Str("W"), Str("workflow W ")),
      Part("Test", Str("test \"t 1\" {\n ok\n}\n"), <<>>, Str("t 1"),
           Str("test \"t 1\" ")),
      Part("record_cut_type", Str("record H {\n m: Map<String, Int\n}\n"), <<>>,
           Str("H"), Str("record H ")),
      Part("task_bracket_params", Str("task Q(m: Map[String, Int]) { }\n"), <<>>,
           Str("Q"), Str("task Q(")),
      Part("task_non_ascii",
           Str("task P() {\n let s = \"caf") \o EAcute \o Str("\"\n}\n"), <<>>,
           Str("P"), Str("task P(")),
      Part("record_unbalanced", Str("record U {\n a: Int\n"), <<>>, Str("U"),
           Str("record U ")),
      Part("task_no_params", Str("task N { }\n"), <<>>, Str("N"), Str("task N ")),
      Part("text", Str("x = 1\n"), <<>>, <<>>, <<>>),
      Part("comment_unterminated", Str("/* open"), <<>>, <<>>, <<>>)>>

part_texts(parts) == [i \in 1..Len(parts) |-> Parts[parts[i]].text]

\* The sources: a head and at most MaxParts parts, in any order.
Sources ==
    {[head |-> h, parts |-> ps,
      text |-> Heads[h].text \o concat(part_texts(ps))] :
        h \in 1..Len(Heads), ps \in SeqsUpTo(1..Len(Parts), MaxParts)}

Init ==
    /\ input \in Sources
    /\ pc = "start"
    /\ name = None
    /\ imports = <<>>
    /\ body = <<>>
    /\ offset = 0
    /\ items = <<>>
    /\ starts = <<>>
    /\ result = Pending

\* module_parser up to the call of parse_items_from_remainder, and the
\* first statements of that function.
ParseHeader ==
    /\ pc = "start"
    /\ \E header \in {module_header(input.text)} :
           IF header.ok
           THEN /\ name' = header.name
                /\ imports' = header.imports
                /\ body' = header.body
                /\ offset' = skip_ws(header.body, 0)
                /\ pc' = "items"
                /\ result' = result
           ELSE /\ pc' = "done"
                /\ result' = ErrParse
                /\ UNCHANGED <<name, imports, body, offset>>
    /\ UNCHANGED <<input, items, starts>>

\* Push with the item put in front of the items pushed before it.
Push_in_front(found) ==
    /\ items' = <<found.item>> \o items
    /\ starts' = Append(starts, offset)
    /\ offset' = skip_ws(body, found.next)
    /\ UNCHANGED <<input, pc, name, imports, body, result>>

\* One turn of the loop of parse_items_from_remainder that pushes the item
\* a recognizer returned.
Push(found) ==
    /\ items' = Append(items, found.item)
    /\ starts' = Append(starts, offset)
    /\ offset' = skip_ws(body, found.next)
    /\ UNCHANGED <<input, pc, name, imports, body, result>>

InLoop == pc = "items" /\ offset < Len(body)

\* The first of the four recognizers' results that is not None, as the
\* if-let chain of the loop finds it.
or_test(src, idx, workflow) ==
    IF workflow = Declined THEN parse_test_decl(src, idx) ELSE workflow
or_workflow(src, idx, task) ==
    IF task = Declined THEN or_test(src, idx, parse_workflow_decl(src, idx)) ELSE task
or_task(src, idx, record) ==
    IF record = Declined THEN or_workflow(src, idx, parse_task_decl(src, idx))
    ELSE record
first_outcome(src, idx) == or_task(src, idx, parse_record_decl(src, idx))

\* with_other without the push of the Other item.
with_other_dropped(tail, pushed) == pushed

\* The items the fall-through of the loop leaves: the trimmed tail as one
\* Other item, or nothing when it is empty.
with_other(tail, pushed) ==
    IF tail = <<>> THEN pushed ELSE Append(pushed, Other(tail))

\* The turn of the loop in which a recognizer matches.
DispatchItem(found) ==
    /\ found # Declined
    /\ ~IsAbort(found)
    /\ Push(found)

\* The turn of the loop in which no recognizer matches: the tail becomes
\* an Other item, the loop breaks, and parse_module returns the Module.
DispatchOther(found) ==
    /\ found = Declined
    /\ items' = with_other(str_trim(slice(body, offset, Len(body))), items)
    /\ starts' = IF items' = items THEN starts ELSE Append(starts, offset)
    /\ pc' = "done"
    /\ result' = OkModule(Module(name, imports, items'))
    /\ UNCHANGED <<input, name, imports, body, offset>>

\* The turn of the loop in which a recognizer does not return: it panics,
\* or it loops for ever.
DispatchAbort(found) ==
    /\ IsAbort(found)
    /\ pc' = IF found = Panics THEN "panicked" ELSE "looping"
    /\ UNCHANGED <<input, name, imports, body, offset, items, starts, result>>

\* One turn of the loop of parse_items_from_remainder.
Dispatch ==
    /\ InLoop
    /\ \E found \in {first_outcome(body, offset)} :
           \/ DispatchItem(found)
           \/ DispatchOther(found)
           \/ DispatchAbort(found)

\* The loop condition fails: parse_module returns the Module.
LoopEnd ==
    /\ pc = "items"
    /\ offset >= Len(body)
    /\ pc' = "done"
    /\ result' = OkModule(Module(name, imports, items))
    /\ UNCHANGED <<input, name, imports, body, offset, items, starts>>

Next ==
    \/ ParseHeader
    \/ Dispatch
    \/ LoopEnd

Spec == Init /\ [][Next]_vars

\* ------------------------------------------------------------------------
\* The functions on their own.  Each specification below starts from an
\* input of one function and has the one step that applies it; the
\* variables of parse_module stay as they start.
\* ------------------------------------------------------------------------

\* The start of a run of one function on one of inputs.
FunctionInit(inputs, at) ==
    /\ input \in inputs
    /\ pc = at
    /\ name = None
    /\ imports = <<>>
    /\ body = <<>>
    /\ offset = 0
    /\ items = <<>>
    /\ starts = <<>>
    /\ result = Pending

\* What a step of a function on its own leaves alone.
Kept == UNCHANGED <<input, name, imports, body, offset, items, starts>>

\* The texts of a sequence joined by a separator.
RECURSIVE join(_, _)
join(texts, sep) ==
    IF texts = <<>> THEN <<>>
    ELSE IF Len(texts) = 1 THEN texts[1]
    ELSE texts[1] \o sep \o join(Tail(texts), sep)

\* ------------------------------------------------------------------------
\* parse_type_expr on type texts (specification TypeSpec)
\* ------------------------------------------------------------------------

\* How deep the well-formed type texts nest.
MaxTypeDepth == 1

TypeNames == {Str("Int"), Str("a.B")}

\* The well-formed type texts that nest at most d deep: a name, and for
\* such texts x and a name n, `x?`, `List[x]`, `Map[x, n]`, `Map<x, n>` and
\* `{ k: x, v?: n }`.
RECURSIVE WellFormedTypes(_)
WellFormedTypes(d) ==
    IF d = 0 THEN TypeNames
    ELSE WellFormedTypes(d - 1)
         \cup {x \o Str("?") : x \in {y \in WellFormedTypes(d - 1) : ~ends_with(y, Str("?"))}}
         \cup {Str("List[") \o x \o Str("]") : x \in WellFormedTypes(d - 1)}
         \cup {Str("Map[") \o x \o Str(", ") \o n \o Str("]") :
                   x \in WellFormedTypes(d - 1), n \in TypeNames}
         \cup {Str("Map<") \o x \o Str(", ") \o n \o Str(">") :
                   x \in WellFormedTypes(d - 1), n \in TypeNames}
         \cup {Str("{ k: ") \o x \o Str(", v?: ") \o n \o Str(" }") :
                   x \in WellFormedTypes(d - 1), n \in TypeNames}

ArgumentTypes == WellFormedTypes(MaxTypeDepth)

\* The bases of the type applications, as qualified names.
SquareBases == {<<Str("Foo")>>, <<Str("a"), Str("List")>>}
AngleBases == SquareBases \cup {<<Str("List")>>}

TypeInput(form, base, x, y, text) ==
    [form |-> form, base |-> base, x |-> x, y |-> y, text |-> text]

\* What may be left after a type: a second `?`, a name, a stray bracket.
TrailingTexts == {Str("??"), Str(" ? ?"), Str(" x"), Str("]"), Str(" = 1"), Str(", Int")}

\* The texts that hold no type at all.
BlankTexts == {<<>>, Str(" "), Str("\n\t ")}

\* The type texts: x, `x?`, `List[x]`, `base[x, y]` and `base<x, y>`, x
\* with text left after it, and the blank texts.
TypeInputs ==
    {TypeInput("plain", <<>>, x, <<>>, x) : x \in ArgumentTypes}
    \cup {TypeInput("optional", <<>>, x, <<>>, x \o Str("?")) :
              x \in {y \in ArgumentTypes : ~ends_with(y, Str("?"))}}
    \cup {TypeInput("list", <<Str("List")>>, x, <<>>, Str("List[") \o x \o Str("]")) :
              x \in ArgumentTypes}
    \cup {TypeInput("square", b, x, y,
                    join(b, Str(".")) \o Str("[") \o x \o Str(", ") \o y \o Str("]")) :
              b \in SquareBases, x \in ArgumentTypes, y \in TypeNames}
    \cup {TypeInput("angle", b, x, y,
                    join(b, Str(".")) \o Str("<") \o x \o Str(", ") \o y \o Str(">")) :
              b \in AngleBases, x \in ArgumentTypes, y \in TypeNames}
    \cup {TypeInput("trailing", <<>>, x, y, Str(" ") \o x \o y \o Str(" ")) :
              x \in ArgumentTypes, y \in TrailingTexts}
    \cup {TypeInput("blank", <<>>, <<>>, <<>>, x) : x \in BlankTexts}

TypeInit == FunctionInit(TypeInputs, "type")
ParseType ==
    /\ pc = "type"
    /\ result' = parse_type_expr(input.text)
    /\ pc' = "done"
    /\ Kept
TypeNext == ParseType
TypeSpec == TypeInit /\ [][TypeNext]_vars

\* C7: for a type text `X?` with X a well-formed type, a plain name
\* included, parse_type_expr returns Optional(T), T being what
\* parse_type_expr returns for X.
C7_TrailingQuestionMarkWraps ==
    (pc = "done" /\ input.form = "optional") =>
        result = Optional(parse_type_expr(input.x))

\* C8: the base and the bracket decide the node of a type application:
\* `List[T]` gives List(T'), `Foo[A, B]` with a base other than List gives
\* Generic{Foo, [A', B']}, and `Foo<A, B>` gives Generic{Foo, [A', B']} for
\* every base, List included; T', A' and B' are the parses of T, A and B.
C8_ApplicationNodes ==
    pc = "done" =>
        /\ input.form = "list" => result = List(parse_type_expr(input.x))
        /\ input.form \in {"square", "angle"} =>
               result = Generic(input.base,
                                <<parse_type_expr(input.x), parse_type_expr(input.y)>>)

C8_Witness ==
    /\ pc = "done"
    /\ input.form = "angle"
    /\ input.base = <<Str("List")>>
    /\ result.kind = "Generic"
    /\ result.arguments[1].kind = "List"
    /\ result.arguments[2] = Simple(<<Str("a"), Str("B")>>)

\* C20: parse_type_expr falls back to Unknown and keeps the text: an empty
\* or all-whitespace text gives Unknown(""), and when text that is not
\* whitespace is left after a type (an atom and at most one `?`), the
\* result is Unknown(t), t being the whole trimmed text, never a part of
\* the text parsed as a type.
C20_UnknownKeepsTheText ==
    pc = "done" =>
        /\ input.form = "blank" => result = Unknown(<<>>)
        /\ input.form = "trailing" => result = Unknown(str_trim(input.text))

\* ------------------------------------------------------------------------
\* Field names (specification FieldSpec)
\* ------------------------------------------------------------------------

FieldNames == {Str("a"), Str("b_1")}

\* What may stand between a field name and the colon; all but the first
\* give the name a trailing `?`.
FieldMarks == {<<>>, Str("?"), Str(" ?"), Str("??"), Str("? ?")}

FieldInput(form, field, mark, ty, text) ==
    [form |-> form, field |-> field, mark |-> mark, ty |-> ty, text |-> text]

\* A record body and a struct type with the field in front of a field z.
FieldInputs ==
    {FieldInput("record", f, q, t,
                Str("\n  ") \o f \o q \o Str(": ") \o t \o Str("\n  z: Int\n")) :
         f \in FieldNames, q \in FieldMarks, t \in ArgumentTypes}
    \cup {FieldInput("struct", f, q, t,
                     Str("{ ") \o f \o q \o Str(": ") \o t \o Str(", z: Int }")) :
              f \in FieldNames, q \in FieldMarks, t \in ArgumentTypes}

\* The fields of a struct type, none when the type is not one.
struct_fields_of(ty) == IF ty.kind = "Struct" THEN ty.fields ELSE <<>>

FieldInit == FunctionInit(FieldInputs, "fields")
ParseFields ==
    /\ pc = "fields"
    /\ result' = IF input.form = "record" THEN parse_record_fields(input.text)
                  ELSE struct_fields_of(parse_type_expr(input.text))
    /\ pc' = "done"
    /\ Kept
FieldNext == ParseFields
FieldSpec == FieldInit /\ [][FieldNext]_vars

\* C9: the name stored for a record field or a struct type field never
\* ends in `?`, its optional flag is true exactly when the name in the
\* source had a trailing `?` before the colon, and the `?` on the name
\* leaves the type alone: the type is the parse of the type text.
C9_FieldNameAndFlag ==
    pc = "done" =>
        /\ \A i \in 1..Len(result) : ~ends_with(result[i].name, Str("?"))
        /\ result # <<>> /\ result[1].name = input.field =>
               /\ result[1].optional = (input.mark # <<>>)
               /\ result[1].ty = parse_type_expr(input.ty)

\* The text matches `[A-Za-z_][A-Za-z0-9_]*`.
matches_identifier(text) ==
    /\ text # <<>>
    /\ text[1] \in AsciiLetters \cup {"_"}
    /\ \A i \in 2..Len(text) : text[i] \in AsciiLetters \cup AsciiDigits \cup {"_"}

\* Every name stored in a type matches the identifier pattern: the segments
\* of its qualified names and the names of its struct fields.
RECURSIVE type_names_match(_)
type_names_match(ty) ==
    IF ty.kind = "Simple" THEN \A i \in 1..Len(ty.name) : matches_identifier(ty.name[i])
    ELSE IF ty.kind = "Generic"
    THEN /\ \A i \in 1..Len(ty.base) : matches_identifier(ty.base[i])
         /\ \A i \in 1..Len(ty.arguments) : type_names_match(ty.arguments[i])
    ELSE IF ty.kind = "List" THEN type_names_match(ty.elem)
    ELSE IF ty.kind = "Optional" THEN type_names_match(ty.inner)
    ELSE IF ty.kind = "Struct"
    THEN \A i \in 1..Len(ty.fields) :
             /\ matches_identifier(ty.fields[i].name)
             /\ type_names_match(ty.fields[i].ty)
    ELSE TRUE

\* C14: every name the tree stores as an identifier matches
\* `[A-Za-z_][A-Za-z0-9_]*`: here the names of the record fields and of
\* the struct type fields, and each segment of a qualified name in their
\* types.
C14_StoredNamesAreIdentifiers ==
    pc = "done" =>
        \A i \in 1..Len(result) :
            /\ matches_identifier(result[i].name)
            /\ type_names_match(result[i].ty)

\* ------------------------------------------------------------------------
\* Expressions (specification ExprSpec)
\* ------------------------------------------------------------------------

ExprTargets == {Str("response"), Str("a"), Str("x1")}
ExprProperties == {Str("data"), Str("b")}
ExprIndexes == {Str("\"items\""), Str("0"), Str("i"), Str("n + 1")}

ExprInput(form, target, property, index, text) ==
    [form |-> form, target |-> target, property |-> property, index |-> index,
     text |-> text]

StructNames == {Str("Brief"), Str("P")}

\* The struct literals `N { p: i, sources: data["sources"] }`: target is
\* the type name, property and index the name and the value of the first
\* field.
StructLiteralInputs ==
    {ExprInput("struct_literal", n, p, i,
               n \o Str(" { ") \o p \o Str(": ") \o i
               \o Str(", sources: data[\"sources\"] }")) :
         n \in StructNames, p \in ExprProperties \cup {Str("title")},
         i \in ExprIndexes \cup {Str("topic")}}

\* The texts with calls: `t(i) + p(i)`, `t[p(i)]`, `t(p(i), i)` and
\* `t(i).p`.
CallInputs ==
    UNION {{ExprInput("call_plus_call", t, p, i,
                      t \o Str("(") \o i \o Str(") + ") \o p \o Str("(") \o i \o Str(")")),
            ExprInput("call_in_index", t, p, i,
                      t \o Str("[") \o p \o Str("(") \o i \o Str(")]")),
            ExprInput("nested_call", t, p, i,
                      t \o Str("(") \o p \o Str("(") \o i \o Str("), ") \o i \o Str(")")),
            ExprInput("call_member", t, p, i,
                      t \o Str("(") \o i \o Str(").") \o p)} :
               t \in ExprTargets, p \in ExprProperties, i \in ExprIndexes}

\* The expression texts: `t?.p[i]`, `t.p[i]`, `t[i]`, `t?.p`, `t.p`, `t(i)`
\* and `t + i`, the struct literals and the texts with calls.
ExprInputs ==
    UNION {{ExprInput("optional_index", t, p, i,
                      t \o Str("?.") \o p \o Str("[") \o i \o Str("]")),
            ExprInput("member_index", t, p, i,
                      t \o Str(".") \o p \o Str("[") \o i \o Str("]")),
            ExprInput("index", t, p, i, t \o Str("[") \o i \o Str("]")),
            ExprInput("optional_member", t, p, i, t \o Str("?.") \o p),
            ExprInput("member", t, p, i, t \o Str(".") \o p),
            ExprInput("call", t, p, i, t \o Str("(") \o i \o Str(")")),
            ExprInput("binary", t, p, i, t \o Str(" + ") \o i)} :
               t \in ExprTargets, p \in ExprProperties, i \in ExprIndexes}
    \cup StructLiteralInputs
    \cup CallInputs

ExprInit == FunctionInit(ExprInputs, "expression")
ParseExpression ==
    /\ pc = "expression"
    /\ result' = parse_expression(input.text)
    /\ pc' = "done"
    /\ Kept
ExprNext == ParseExpression
ExprSpec == ExprInit /\ [][ExprNext]_vars

\* The nodes the test parses_optional_and_index_expressions matches.
Index(target, index) == [kind |-> "Index", target |-> target, index |-> index]
OptionalChain(target, property) ==
    [kind |-> "OptionalChain", target |-> target, property |-> property]

\* C10: `target?.property[index]` parses to Index{target =
\* OptionalChain{target = Identifier(target), property}, index = the parse
\* of the index text}, and a string index is a Literal with its quotes.
C10_OptionalChainIndex ==
    (pc = "done" /\ input.form = "optional_index") =>
        /\ result = Index(OptionalChain(Identifier(input.target), input.property),
                          parse_expression(input.index))
        /\ input.index = Str("\"items\"") => result.index = Literal(input.index)

\* The node the test parses_sample_project_main matches.
StructLiteral(type_name, fields) ==
    [kind |-> "StructLiteral", type_name |-> type_name, fields |-> fields]

\* C11: `Name { f1: e1, f2: e2 }` with a balanced brace span parses to
\* StructLiteral{type_name = [Name], fields = [(f1, parse e1), (f2, parse
\* e2)]}, the fields in source order.
C11_StructLiteral ==
    (pc = "done" /\ input.form = "struct_literal") =>
        result = StructLiteral(<<input.target>>,
                               <<(<<input.property, parse_expression(input.index)>>),
                                 (<<Str("sources"),
                                    parse_expression(Str("data[\"sources\"]"))>>)>>)

\* ------------------------------------------------------------------------
\* Operators (specification OperatorSpec)
\* ------------------------------------------------------------------------

Operands == {Str("a"), Str("b1"), Str("x[i - 1]"), Str("\"s t\"")}
InnerOperands == {Str("a"), Str("2"), Str("{ k: a * b }")}
Operators == {ops[k] : k \in 1..Len(ops)}

OperatorInput(form, operands, operators, text) ==
    [form |-> form, operands |-> operands, operators |-> operators, text |-> text]

\* The texts `x op y` and `x op y op z`, with and without spaces around
\* the operators.
OperatorInputs ==
    UNION {{OperatorInput("one", <<x, y>>, <<o>>, x \o sp \o o \o sp \o y) :
                x \in Operands, y \in Operands, o \in Operators} : sp \in {<<>>, Str(" ")}}
    \cup UNION {{OperatorInput("two", <<x, y, z>>, <<o, q>>,
                               x \o sp \o o \o sp \o y \o sp \o q \o sp \o z) :
                     x \in InnerOperands, y \in InnerOperands, z \in InnerOperands,
                     o \in Operators, q \in Operators} : sp \in {<<>>, Str(" ")}}

OperatorInit == FunctionInit(OperatorInputs, "operators")
ParseOperators ==
    /\ pc = "operators"
    /\ result' = parse_expression(input.text)
    /\ pc' = "done"
    /\ Kept
OperatorNext == ParseOperators
OperatorSpec == OperatorInit /\ [][OperatorNext]_vars

\* The bracket depth of the text in front of offset at.
bracket_depth(text, at) ==
    Cardinality({j \in 1..at : text[j] \in {"(", "[", "{"}})
    - Cardinality({j \in 1..at : text[j] \in {")", "]", "}"}})

\* The occurrences of an operator at bracket depth zero with text that is
\* not empty on both sides, and the rightmost of them.
operator_occurrences(text) ==
    {occ \in [at : 0..(Len(text) - 1), op : Operators] :
         /\ starts_with_at(text, occ.at, occ.op)
         /\ bracket_depth(text, occ.at) = 0
         /\ str_trim(SubSeq(text, 1, occ.at)) # <<>>
         /\ str_trim(SubSeq(text, occ.at + Len(occ.op) + 1, Len(text))) # <<>>}
rightmost(occs) ==
    CHOOSE occ \in occs :
        \A other \in occs : other.at + Len(other.op) <= occ.at + Len(occ.op)

\* The expression split at an occurrence of an operator.
split_at(text, occ) ==
    Binary(parse_expression(SubSeq(text, 1, occ.at)), occ.op,
           parse_expression(SubSeq(text, occ.at + Len(occ.op) + 1, Len(text))))

\* C16: for a text without parentheses in which an operator occurs at
\* bracket depth zero with text on both sides, parse_expression returns
\* Binary{parse(left), op, parse(right)} split at the rightmost such
\* occurrence; so `a - b - c` is Binary{Binary{a, -, b}, -, c} and
\* `a + b * c` is Binary{Binary{a, +, b}, *, c}.
C16_RightmostOperatorSplits ==
    pc = "done" =>
        /\ operator_occurrences(input.text) # {}
        /\ result = split_at(input.text, rightmost(operator_occurrences(input.text)))
        /\ (input.form = "two" /\ \A i \in 1..3 : input.operands[i] = Str("a")) =>
               result = Binary(Binary(Identifier(Str("a")), input.operators[1],
                                      Identifier(Str("a"))),
                               input.operators[2], Identifier(Str("a")))

C16_Witness ==
    /\ pc = "done"
    /\ input.text = Str("a + 2 * { k: a * b }")
    /\ result = Binary(Binary(Identifier(Str("a")), Str("+"), Literal(Str("2"))),
                       Str("*"), Raw(Str("{ k: a * b }")))

\* ------------------------------------------------------------------------
\* Calls (specification ExprSpec)
\* ------------------------------------------------------------------------

\* The offset of the first `(` at bracket depth zero, or -1.
depth_zero_open(text) ==
    LET hits == {i \in 0..(Len(text) - 1) :
                     text[i + 1] = "(" /\ bracket_depth(text, i) = 0}
    IN  IF hits = {} THEN -1 ELSE CHOOSE i \in hits : \A j \in hits : i <= j

\* The offset of the `)` that matches the `(` at offset open, or -1.
matching_close(text, open) ==
    LET count(ch, upto) == Cardinality({j \in (open + 1)..(upto + 1) : text[j] = ch})
        hits == {c \in (open + 1)..(Len(text) - 1) :
                     text[c + 1] = ")" /\ count("(", c) = count(")", c)}
    IN  IF hits = {} THEN -1 ELSE CHOOSE c \in hits : \A d \in hits : c <= d

\* The Call split at the `(` at offset open and the `)` at offset close.
call_split_at(text, open, close) ==
    Call(parse_expression(SubSeq(text, 1, open)),
         parse_expressions(split_args(SubSeq(text, open + 2, close)).args))

\* C17: whenever parse_expression returns a Call, the `(` it split on is
\* at bracket depth zero, the `)` is the one that matches it, the callee
\* is the parse of the text before the `(`, and the arguments are the
\* parses of the depth-zero comma-separated pieces between the pair.
C17_CallSplitsAtMatchingPair ==
    (pc = "done" /\ result.kind = "Call") =>
        /\ depth_zero_open(input.text) >= 0
        /\ matching_close(input.text, depth_zero_open(input.text)) >= 0
        /\ result = call_split_at(input.text, depth_zero_open(input.text),
                                  matching_close(input.text,
                                                 depth_zero_open(input.text)))

\* ------------------------------------------------------------------------
\* Balanced spans (specification BalancedSpec)
\* ------------------------------------------------------------------------

\* The most pieces between an opener and its closer.
MaxPieces == 2

BracketPairs == {<<"{", "}">>, <<"(", ")">>, <<"<", ">">>}

\* What may stand between the opener o and its closer c: text, a bracket
\* of another kind, a two-byte character, a nested span, and strings that hold the closer, the
\* opener, an escaped quote before the closer, and an escaped backslash
\* at their end.
Pieces(o, c) ==
    {Str("a "), Str("["), EAcute, <<o>> \o Str(" b ") \o <<c>>,
     Str("\"") \o <<c>> \o Str("\""), Str("\"") \o <<o>> \o Str("\""),
     Str("\"x\\\"") \o <<c>> \o Str("\""), Str("\"\\\\\"")}

BalancedInput(form, open, close, start, inner, text) ==
    [form |-> form, open |-> open, close |-> close, start |-> start,
     inner |-> inner, text |-> text]

\* The inputs for one bracket pair: a span with its closer, a span without
\* one, and a start that is not on the opener.  The span starts after the
\* text before and the text after follows its closer.
BalancedInputsOf(o, c) ==
    UNION {{BalancedInput("balanced", o, c, Len(before), concat(inner),
                          before \o <<o>> \o concat(inner) \o <<c>> \o after),
            BalancedInput("unclosed", o, c, Len(before), concat(inner),
                          before \o <<o>> \o concat(inner)),
            BalancedInput("not_opener", o, c, Len(before) + 1, concat(inner),
                          before \o <<o>> \o Str("x") \o concat(inner) \o <<c>> \o after)} :
               inner \in SeqsUpTo(Pieces(o, c), MaxPieces),
               before \in {<<>>, Str("t ") \o <<c>>},
               after \in {<<>>, Str(" ") \o <<c>>, Str("\"")}}

BalancedInputs == UNION {BalancedInputsOf(pair[1], pair[2]) : pair \in BracketPairs}

BalancedInit == FunctionInit(BalancedInputs, "balanced")
ExtractBalanced ==
    /\ pc = "balanced"
    /\ result' = extract_balanced(input.text, input.start, input.open, input.close)
    /\ pc' = "done"
    /\ Kept
BalancedNext == ExtractBalanced
BalancedSpec == BalancedInit /\ [][BalancedNext]_vars

\* C18: extract_balanced, started at an opener, returns the text strictly
\* between the opener and its matching closer with the position right
\* after that closer; matching counts the nesting of the same pair and
\* ignores every bracket inside a double-quoted string, where a backslash
\* protects the next character.  It returns no match when the start is
\* not on the opener or no matching closer follows.
C18_BalancedSpan ==
    pc = "done" =>
        /\ input.form = "balanced" =>
               result = ScanSome(input.inner, input.start + Len(input.inner) + 2)
        /\ input.form \in {"unclosed", "not_opener"} => result = ScanNone

C18_Witness ==
    /\ pc = "done"
    /\ input.form = "balanced"
    /\ input.inner = Str("\"x\\\"}\"{ b }")
    /\ input.start = 3
    /\ result.some
    /\ result.text = input.inner
    /\ result.idx = Len(input.text) - 2

\* ------------------------------------------------------------------------
\* Quoted strings as expressions (specification StringSpec)
\* ------------------------------------------------------------------------

\* The most pieces between the quotes of a string.
MaxStringPieces == 3

\* What a string is made of: no double quote and no backslash.
StringPieces ==
    {Str("a"), Str("1"), Str(" "), Str("-"), Str("=="), Str("."), Str(","),
     Str("("), Str(")"), Str("["), Str("]")}

StringInput(pieces) ==
    [pieces |-> pieces, text |-> Str("\"") \o concat(pieces) \o Str("\"")]

StringInputs == {StringInput(pieces) : pieces \in SeqsUpTo(StringPieces, MaxStringPieces)}

StringInit == FunctionInit(StringInputs, "string")
ParseString ==
    /\ pc = "string"
    /\ result' = parse_expression(input.text)
    /\ pc' = "done"
    /\ Kept
StringNext == ParseString
StringSpec == StringInit /\ [][StringNext]_vars

\* C22: a double-quoted string with no inner double quote and no backslash
\* is an expression Literal of the text, quotes included, whatever is
\* between the quotes: operators, dots, commas, parentheses and brackets
\* never make it a Binary, a Member or a Call.
C22_QuotedStringIsLiteral ==
    pc = "done" => result = Literal(input.text)

\* ------------------------------------------------------------------------
\* Blocks (specification BlockSpec)
\* ------------------------------------------------------------------------

\* The most statement lines of a body.
MaxLines == 2

StatementLines == {Str("let y = x + 1"), Str("return y"), Str("s.run(a, b)"), Str("ok")}
CommentLines ==
    {Str("// note"), Str("/// doc"), Str("//"), Str("// see a.b"), Str("/// calls f(x)")}

\* The lines with the comment line put in front of line at + 1.
with_line_at(lines, at, line) ==
    SubSeq(lines, 1, at) \o <<line>> \o SubSeq(lines, at + 1, Len(lines))

\* A body as extract_balanced hands it over: each line indented, on a
\* line of its own.
body_text(lines) ==
    Str("\n") \o concat([i \in 1..Len(lines) |-> Str("  ") \o lines[i] \o Str("\n")])

BlockInput(lines, comment, at) ==
    [lines |-> lines, comment |-> comment, at |-> at,
     text |-> body_text(with_line_at(lines, at, comment)),
     without |-> body_text(lines)]

\* The bodies: at most MaxLines statement lines and one comment line
\* somewhere among them.
BlockInputs ==
    UNION {{BlockInput(lines, comment, at) : at \in 0..Len(lines), comment \in CommentLines} :
               lines \in SeqsUpTo(StatementLines, MaxLines)}

BlockInit == FunctionInit(BlockInputs, "block")
BuildBlock ==
    /\ pc = "block"
    /\ result' = build_block(input.text)
    /\ pc' = "done"
    /\ Kept
BlockNext == BuildBlock
BlockSpec == BlockInit /\ [][BlockNext]_vars

\* C21: a line of a body that holds only a `///` or a `//` comment adds no
\* Statement to the Block: the statements are those of the body without
\* that line.
C21_CommentLineAddsNoStatement ==
    pc = "done" => result.statements = build_block(input.without).statements

\* ------------------------------------------------------------------------
\* Record declarations (specification RecordSpec)
\* ------------------------------------------------------------------------

RecordNames == {Str("R"), Str("Rec")}
RecordTypesA == {Str("String"), Str("Int"), Str("a.B")}
RecordTypesB == {Str("List[Int]?"), Str("List[Int]"), Str("Int")}
RecordTypesC == {Str("{ k: String, v?: Int }"), Str("String")}

\* The three fields of a record as they are written.
record_field_texts(ta, tb, tc) ==
    <<Str("a: ") \o ta, Str("b?: ") \o tb, Str("c: ") \o tc>>

\* A record as it is laid out: on one line with commas between the fields,
\* one field a line, or one field a line with a comma after each.
record_text(n, layout, fields) ==
    IF layout = "one_line"
    THEN Str("record ") \o n \o Str(" { ") \o join(fields, Str(", ")) \o Str(" }")
    ELSE IF layout = "lines"
    THEN Str("record ") \o n \o Str(" {\n ") \o join(fields, Str("\n ")) \o Str("\n}")
    ELSE Str("record ") \o n \o Str(" {\n ") \o join(fields, Str(",\n ")) \o Str(",\n}")

RecordInput(layout, n, ta, tb, tc) ==
    [layout |-> layout, name |-> n, ta |-> ta, tb |-> tb, tc |-> tc,
     text |-> record_text(n, layout, record_field_texts(ta, tb, tc))]

RecordInputs ==
    {RecordInput(layout, n, ta, tb, tc) :
         layout \in {"one_line", "lines", "lines_commas"}, n \in RecordNames,
         ta \in RecordTypesA, tb \in RecordTypesB, tc \in RecordTypesC}

RecordInit == FunctionInit(RecordInputs, "record")
ParseRecord ==
    /\ pc = "record"
    /\ result' = parse_record_decl(input.text, 0)
    /\ pc' = "done"
    /\ Kept
RecordNext == ParseRecord
RecordSpec == RecordInit /\ [][RecordNext]_vars

\* C12: a record with its fields on one line, separated by commas, parses
\* to a Record with the three fields in order, a not optional, b optional,
\* c not optional; for `record R { a: String, b?: List[Int]?, c: { k:
\* String, v?: Int } }` the types are Simple[String],
\* List(Optional(Simple[Int])) and Struct[k: Simple[String] not optional,
\* v: Simple[Int] optional].
C12_OneLineRecord ==
    (pc = "done" /\ input.layout = "one_line") =>
        /\ result # Declined
        /\ result.item.kind = "Record"
        /\ result.item.name = input.name
        /\ Len(result.item.fields) = 3
        /\ [i \in 1..3 |-> result.item.fields[i].name] = <<Str("a"), Str("b"), Str("c")>>
        /\ [i \in 1..3 |-> result.item.fields[i].optional] = <<FALSE, TRUE, FALSE>>
        /\ (input.ta = Str("String") /\ input.tb = Str("List[Int]?")
                /\ input.tc = Str("{ k: String, v?: Int }")) =>
               [i \in 1..3 |-> result.item.fields[i].ty]
                   = <<Simple(<<Str("String")>>),
                       List(Optional(Simple(<<Str("Int")>>))),
                       Struct(<<StructFieldType(Str("k"), FALSE, Simple(<<Str("String")>>)),
                                StructFieldType(Str("v"), TRUE, Simple(<<Str("Int")>>))>>)>>

\* ------------------------------------------------------------------------
\* Task declarations (specification TaskSpec)
\* ------------------------------------------------------------------------

\* Type texts with the nodes they stand for.
TaskType(text, node) == [text |-> text, node |-> node]
ParamTypes ==
    {TaskType(Str("Int"), Simple(<<Str("Int")>>)),
     TaskType(Str("a.B"), Simple(<<Str("a"), Str("B")>>))}
ReturnTypes ==
    {TaskType(Str("String"), Simple(<<Str("String")>>)),
     TaskType(Str("List[Int]"), List(Simple(<<Str("Int")>>)))}
ParamNames == {Str("x"), Str("n_1")}
ParamDefaults == {Str("0"), Str("\"s\"")}
LetNames == {Str("y"), Str("z_1")}
LetOperators == {Str("+"), Str("*"), Str("==")}

TaskInput(form, param, ty, default, ret, let, op, text) ==
    [form |-> form, param |-> param, ty |-> ty, default |-> default, ret |-> ret,
     let |-> let, op |-> op, text |-> text]

\* The tasks `task T(p: ty = d) -> ret { let v: ty = p op 1 <newline>
\* return v }`.
TypedLetInputs ==
    {TaskInput("typed_let", x, ty, d, ret, v, op,
               Str("task T(") \o x \o Str(": ") \o ty.text \o Str(" = ") \o d
               \o Str(") -> ") \o ret.text \o Str(" { let ") \o v \o Str(": ")
               \o ty.text \o Str(" = ") \o x \o Str(" ") \o op \o Str(" 1\n return ")
               \o v \o Str(" }")) :
         x \in ParamNames, ty \in ParamTypes, d \in ParamDefaults,
         ret \in ReturnTypes, v \in LetNames, op \in LetOperators}

\* First parameters with commas inside the brackets of the type or inside
\* the default value, and without any.
FirstParamTypes ==
    {TaskType(Str("Map[String, Int]"),
              Generic(<<Str("Map")>>, <<Simple(<<Str("String")>>), Simple(<<Str("Int")>>)>>)),
     TaskType(Str("Map<String, Int>"),
              Generic(<<Str("Map")>>, <<Simple(<<Str("String")>>), Simple(<<Str("Int")>>)>>)),
     TaskType(Str("{ k: Int, v: Int }"),
              Struct(<<StructFieldType(Str("k"), FALSE, Simple(<<Str("Int")>>)),
                       StructFieldType(Str("v"), FALSE, Simple(<<Str("Int")>>))>>)),
     TaskType(Str("List[Int]"), List(Simple(<<Str("Int")>>))),
     TaskType(Str("Int"), Simple(<<Str("Int")>>))}
FirstParamDefaults == {<<>>, Str("0"), Str("f(1, 2)"), Str("[1, 2]")}

\* The tasks `task T(p: ty, b: Int) { }` and `task T(p: ty = d, b: Int)
\* { }`.
TwoParamInputs ==
    {TaskInput("two_params", x, ty, d, <<>>, <<>>, <<>>,
               Str("task T(") \o x \o Str(": ") \o ty.text
               \o (IF d = <<>> THEN <<>> ELSE Str(" = ") \o d)
               \o Str(", b: Int) { }")) :
         x \in ParamNames, ty \in FirstParamTypes, d \in FirstParamDefaults}

TaskInputs == TypedLetInputs \cup TwoParamInputs

TaskInit == FunctionInit(TaskInputs, "task")
ParseTask ==
    /\ pc = "task"
    /\ result' = parse_task_decl(input.text, 0)
    /\ pc' = "done"
    /\ Kept
TaskNext == ParseTask
TaskSpec == TaskInit /\ [][TaskNext]_vars

\* C13: `task T(x: Int = 0) -> String { let y: Int = x + 1 <newline>
\* return y }` parses to a Task with exactly one Param{x, Simple[Int],
\* default "0"}, return type Simple[String], and the statements [Let{y,
\* Simple[Int], Binary{Identifier(x), "+", Literal("1")}},
\* Return{Some(Identifier(y))}]; likewise for the other names, types,
\* defaults and operators.
C13_TaskWithTypedLet ==
    (pc = "done" /\ input.form = "typed_let") =>
        /\ result # Declined
        /\ ~IsAbort(result)
        /\ result.next = Len(input.text)
        /\ result.item.kind = "Task"
        /\ result.item.name = Str("T")
        /\ result.item.params = <<Param(input.param, input.ty.node, Some(input.default))>>
        /\ result.item.return_type = Some(input.ret.node)
        /\ result.item.body.statements
               = <<Let(input.let, Some(input.ty.node),
                       Some(Binary(Identifier(input.param), input.op, Literal(Str("1"))))),
                   Return(Some(Identifier(input.let)))>>

C13_Witness ==
    /\ pc = "done"
    /\ input.text = Str("task T(x: Int = 0) -> String { let y: Int = x + 1\n return y }")
    /\ Len(result.item.params) = 1
    /\ result.item.params[1].default = Some(Str("0"))
    /\ Len(result.item.body.statements) = 2
    /\ result.item.body.statements[1].value[1].kind = "Binary"

\* C15: a parameter list is split only at commas at bracket depth zero: a
\* comma inside the brackets of a parameter's type or inside a default
\* value starts no new parameter, so `a: Map[String, Int], b: Int` gives
\* exactly two Params, in source order, the first with the type
\* Generic{[Map], [String, Int]} and the second with Simple[Int].
C15_ParamsSplitAtDepthZero ==
    (pc = "done" /\ input.form = "two_params") =>
        /\ ~IsAbort(result)
        /\ result # Declined
        /\ result.item.params
               = <<Param(input.param, input.ty.node,
                         IF input.default = <<>> THEN None ELSE Some(input.default)),
                   Param(Str("b"), Simple(<<Str("Int")>>), None)>>

\* ------------------------------------------------------------------------
\* Import clauses (specification ImportSpec)
\* ------------------------------------------------------------------------

\* The most members an import clause lists.
MaxMembers == 2

ImportPaths == {<<Str("p")>>, <<Str("core"), Str("text")>>, <<Str("a"), Str("b"), Str("c")>>}
ImportAliases == {Str("t"), Str("as"), Str("x_1")}
MemberNames == {Str("a"), Str("b"), Str("T1")}
MemberLists == {ms \in SeqsUpTo(MemberNames, MaxMembers) : ms # <<>>}

\* A member list as it is written: `{a,b}`, `{ a, b }` or `{ a, b, }`.
member_list_text(ms, style) ==
    IF style = "tight" THEN Str("{") \o join(ms, Str(",")) \o Str("}")
    ELSE IF style = "spaced" THEN Str("{ ") \o join(ms, Str(", ")) \o Str(" }")
    ELSE Str("{ ") \o join(ms, Str(", ")) \o Str(", }")

ImportInput(order, path, alias, members, text) ==
    [order |-> order, path |-> path, alias |-> alias, members |-> members,
     text |-> text]

\* The import clauses: `import p as a { ms }` and `import p { ms } as a`.
ImportInputs ==
    UNION {{ImportInput("alias_first", p, a, ms,
                        Str("import ") \o join(p, Str(".")) \o Str(" as ") \o a
                        \o Str(" ") \o member_list_text(ms, style) \o Str("\n")),
            ImportInput("members_first", p, a, ms,
                        Str("import ") \o join(p, Str(".")) \o Str(" ")
                        \o member_list_text(ms, style) \o Str(" as ") \o a
                        \o Str("\n"))} :
               p \in ImportPaths, a \in ImportAliases, ms \in MemberLists,
               style \in {"tight", "spaced", "trailing"}}

ImportInit == FunctionInit(ImportInputs, "import")
ParseImport ==
    /\ pc = "import"
    /\ result' = module_header(input.text)
    /\ pc' = "done"
    /\ Kept
ImportNext == ParseImport
ImportSpec == ImportInit /\ [][ImportNext]_vars

\* C4: an import clause with the alias before the member list and one
\* with the member list before the alias parse to the same
\* Import{path = p, members = ms, alias = a}.
C4_ImportTailOrders ==
    pc = "done" =>
        /\ result.ok
        /\ result.imports = <<Import(input.path, Some(input.members), Some(input.alias))>>
        /\ result.body = <<>>

C4_Witness ==
    /\ pc = "done"
    /\ input.order = "members_first"
    /\ Len(input.members) = 2
    /\ result.imports[1].alias = Some(Str("as"))
    /\ result.imports[1].members = Some(input.members)

\* ------------------------------------------------------------------------
\* Properties of parse_module (specification Spec)
\* ------------------------------------------------------------------------

\* What the parts of a source say about it.
part(i) == Parts[input.parts[i]]
part_count == Len(input.parts)
is_declaration(p) == p.what \in {"Record", "Task", "Workflow", "Test"}

\* The number of import clauses the parts begin with.
leading_imports ==
    CHOOSE k \in 0..part_count :
        /\ \A i \in 1..k : part(i).what = "import"
        /\ k < part_count => part(k + 1).what # "import"

\* The part after the leading import clauses is one of the given kinds.
header_ends_with(kinds) ==
    leading_imports < part_count /\ part(leading_imports + 1).what \in kinds

\* The header of the source is malformed: a module keyword with no name,
\* or, where an import clause may stand, an import keyword with no path or
\* an import whose member list has an unmatched brace.
malformed_header ==
    \/ ~Heads[input.head].wellformed
    \/ header_ends_with({"import_no_path", "import_unmatched"})

\* The paths of the import clauses of a source whose header has no import
\* keyword without a path, in the order the clauses appear.
source_import_paths ==
    Heads[input.head].paths
    \o [i \in 1..leading_imports |-> part(i).path]
    \o (IF header_ends_with({"import_unmatched"})
        THEN <<part(leading_imports + 1).path>> ELSE <<>>)

returned == pc = "done" /\ result.kind = "Ok"

\* C1: parse_module terminates on every source: no loop reached from it
\* takes a turn that neither advances its cursor nor exits, also when a
\* type text is cut short before its closing `>` or `]`.
C1_EveryLoopAdvancesOrExits == pc # "looping"

\* C2: the item phase never aborts: no string slice taken while parsing the
\* expressions of a declaration body is out of range or off a character
\* boundary, also when the body holds multi-byte characters.
C2_ItemPhaseNeverAborts == pc # "panicked"

\* C3: on a source with a malformed header (a module keyword with no name,
\* an import keyword with no path, an import with an unmatched `{` in its
\* member list) parse_module returns the Parse diagnostic and no tree.
C3_MalformedHeaderFails ==
    (pc = "done" /\ malformed_header) => result = ErrParse

\* C5: when no recognizer matches at the offset and the trimmed tail is not
\* empty, one Other item holding the whole trimmed tail from that offset is
\* appended and the loop ends; a recognizer that declines appends no item
\* of its own and leaves the offset alone.  So there is at most one Other
\* item, and it is the last.
C5_OtherIsTheTrimmedTail ==
    /\ \A i \in 1..Len(items) :
           items[i].kind = "Other" =>
               /\ i = Len(items)
               /\ pc = "done"
               /\ starts[i] = offset
               /\ items[i].text # <<>>
               /\ items[i].text = str_trim(slice(body, offset, Len(body)))
    /\ (returned /\ offset < Len(body)) =>
           /\ items # <<>>
           /\ items[Len(items)].kind = "Other"
    /\ \A i \in 1..Len(items), k \in 1..part_count :
           part(k).what \in {"record_unbalanced", "task_no_params"} =>
               items[i].kind = "Other" \/ items[i].name # part(k).name
    /\ returned => result.module.items = items

C5_Witness ==
    /\ returned
    /\ Len(items) = 2
    /\ items[1].kind = "Task"
    /\ items[2].kind = "Other"
    /\ part_count = 2
    /\ part(2).what = "record_unbalanced"

\* C6: the imports of a returned Module are in the order their clauses
\* appear in the source, and its items are in the order their declarations
\* start in the source: the offset strictly increases from one appended
\* item to the next, and each item is the declaration that starts there.
C6_SourceOrder ==
    /\ Len(starts) = Len(items)
    /\ \A i \in 1..(Len(starts) - 1) : starts[i] < starts[i + 1]
    /\ \A i \in 1..Len(items) :
           items[i].kind # "Other" =>
               \E k \in 1..part_count :
                   /\ part(k).what = items[i].kind
                   /\ part(k).name = items[i].name
                   /\ starts_with_at(body, skip_doc_comments(body, starts[i]),
                                     part(k).opens)
    /\ (returned /\ Heads[input.head].wellformed
                 /\ ~header_ends_with({"import_no_path"})) =>
           /\ result.module.items = items
           /\ [i \in 1..Len(result.module.imports) |-> result.module.imports[i].path]
                  = source_import_paths
           /\ \A i \in 1..Len(items) :
                  items[i].kind # "Other" =>
                      /\ leading_imports + i <= part_count
                      /\ part(leading_imports + i).name = items[i].name

C6_Witness ==
    /\ returned
    /\ input.head = 3
    /\ Len(result.module.imports) = 2
    /\ Len(result.module.items) = 2
    /\ result.module.items[1].kind = "Workflow"
    /\ result.module.items[2].kind = "Record"

\* The first part that is a block comment without its `*/`, 0 when there
\* is none.
unterminated_comment ==
    IF \E k \in 1..part_count : part(k).what = "comment_unterminated"
    THEN CHOOSE k \in 1..part_count :
             /\ part(k).what = "comment_unterminated"
             /\ \A i \in 1..(k - 1) : part(i).what # "comment_unterminated"
    ELSE 0

\* C19: an unterminated block comment is skipped to the end of the input
\* without failing: on a source with a well-formed header whose parts,
\* after the leading imports, are declarations up to a `/*` that no `*/`
\* follows, the skipper leaves the cursor at the end of the input,
\* parse_module succeeds, and the items are the declarations before the
\* comment: no item, and no Other item, comes from the comment text.
C19_UnterminatedCommentSkipped ==
    (/\ pc = "done"
     /\ Heads[input.head].wellformed
     /\ unterminated_comment > 0
     /\ \A i \in 1..(unterminated_comment - 1) :
            i <= leading_imports \/ is_declaration(part(i))) =>
        /\ result.kind = "Ok"
        /\ offset = Len(body)
        /\ \A i \in 1..Len(items) : items[i].kind # "Other"
        /\ Len(items) = unterminated_comment - 1 - leading_imports

====
